---- MODULE Spec2Model ----
(***************************************************************************)
(* A model of desk-ai's backend (src/python/backend.py): the NDJSON bridge *)
(* DeskBackend, its ingest loop, the prompt tasks it spawns on the asyncio *)
(* event loop, the tool dispatcher with its approval futures, the shell    *)
(* executor and the filesystem tools.                                      *)
(*                                                                         *)
(* Texts (tool outputs, model deltas, messages) are sequences of string    *)
(* parts standing for their concatenation; the empty text is << >>.        *)
(* Paths are sequences of segments, a segment a sequence of characters, so *)
(* that str(path) and str.startswith are computed character by character.  *)
(***************************************************************************)
EXTENDS Integers, Sequences, FiniteSets, TLC

None == "None"

\* ------------------------------------------------------------------ bounds
\* stdin lines the ingest loop handles in one behaviour
MaxLines == 5
\* the same, in the specifications whose commands are many
FewLines == 4
\* prompt units of work created in one behaviour
MaxPrompts == 2
\* text deltas the provider streams in one round
MaxDeltas == 1
\* tool_use blocks the provider emits in one round
MaxCallsPerRound == 2
\* rounds of one prompt that end in tool calls
MaxToolRounds == 2
\* lines a shell child writes to one of its pipes
MaxShellLines == 1

\* ------------------------------------------------------- program constants
\* read_file: int(arguments.get("max_bytes", 20000))
DefaultMaxBytes == 20000
\* list_directory: entries[:400]
MaxEntries == 400

\* ------------------------------------------------------------------- texts
Last(s) == s[Len(s)]
Front(s) == SubSeq(s, 1, Len(s) - 1)

IsSpace(part) == part \in {" ", "\n"}

RECURSIVE LStrip(_)
LStrip(t) == IF t # <<>> /\ IsSpace(Head(t)) THEN LStrip(Tail(t)) ELSE t

RECURSIVE RStrip(_)
RStrip(t) == IF t # <<>> /\ IsSpace(Last(t)) THEN RStrip(Front(t)) ELSE t

\* str.strip() of "".join(parts)
Strip(t) == RStrip(LStrip(t))

RECURSIVE Concat(_)
\* "".join(list of texts)
Concat(ts) == IF ts = <<>> THEN <<>> ELSE Head(ts) \o Concat(Tail(ts))

RECURSIVE JoinWith(_, _)
\* sep.join(list of texts)
JoinWith(sep, ts) ==
    IF ts = <<>> THEN <<>>
    ELSE IF Len(ts) = 1 THEN Head(ts)
    ELSE Head(ts) \o <<sep>> \o JoinWith(sep, Tail(ts))

Take(s, n) == IF Len(s) > n THEN SubSeq(s, 1, n) ELSE s

\* str(n) for the small numbers the model meets
NumStr(n) == IF n < 10 THEN <<"0", "1", "2", "3", "4", "5", "6", "7", "8", "9">>[n + 1]
             ELSE "many"

\* dict.get(key, default) and dict.update(other) on argument mappings
Get(args, k, default) == IF k \in DOMAIN args THEN args[k] ELSE default
Overwrite(args, ov) == ov

\* line 684: arguments.update(overrides)
Update(args, ov) ==
    [k \in DOMAIN args \cup DOMAIN ov |-> IF k \in DOMAIN ov THEN ov[k] ELSE args[k]]

\* ------------------------------------------------------------------- paths
\* characters in code-point order, for the comparison sorted() makes
Alphabet == <<".", "/", "2", "d", "e", "f", "g", "o", "w">>
Code(c) == CHOOSE i \in 1..Len(Alphabet) : Alphabet[i] = c

Dot == <<".">>
DotDot == <<".", ".">>

RECURSIVE SegLess(_, _)
\* a < b on strings
SegLess(a, b) ==
    IF a = <<>> THEN b # <<>>
    ELSE IF b = <<>> THEN FALSE
    ELSE IF Head(a) = Head(b) THEN SegLess(Tail(a), Tail(b))
    ELSE Code(Head(a)) < Code(Head(b))

RECURSIVE PathLess(_, _)
\* PurePath.__lt__: the parts compared as lists of strings
PathLess(p, q) ==
    IF p = <<>> THEN q # <<>>
    ELSE IF q = <<>> THEN FALSE
    ELSE IF Head(p) = Head(q) THEN PathLess(Tail(p), Tail(q))
    ELSE SegLess(Head(p), Head(q))

RECURSIVE Sorted(_)
\* sorted(paths)
Sorted(S) ==
    IF S = {} THEN <<>>
    ELSE LET m == CHOOSE x \in S : \A y \in S \ {x} : PathLess(x, y)
         IN <<m>> \o Sorted(S \ {m})

RECURSIVE Reversed(_)
Reversed(s) == IF s = <<>> THEN <<>> ELSE Reversed(Tail(s)) \o <<Head(s)>>

RECURSIVE Str(_)
\* str(path) of an absolute path
Str(p) == IF p = <<>> THEN <<>> ELSE <<"/">> \o Head(p) \o Str(Tail(p))

StrAbs(p) == IF p = <<>> THEN <<"/">> ELSE Str(p)

\* str.startswith
StartsWith(s, prefix) ==
    Len(prefix) <= Len(s) /\ SubSeq(s, 1, Len(prefix)) = prefix

RECURSIVE Normalize(_, _)
\* Path.resolve() without symlinks: "." dropped, ".." pops (the root's parent is the root)
Normalize(done, todo) ==
    IF todo = <<>> THEN done
    ELSE IF Head(todo) = Dot THEN Normalize(done, Tail(todo))
    ELSE IF Head(todo) = DotDot
         THEN Normalize(IF done = <<>> THEN <<>> ELSE Front(done), Tail(todo))
    ELSE Normalize(done \o <<Head(todo)>>, Tail(todo))

\* workdir / relative: an absolute right operand replaces the left one
JoinPath(workdir, rel) == IF rel.abs THEN rel.segs ELSE workdir \o rel.segs

\* path.relative_to(workdir) succeeds: workdir's parts are a prefix of path's parts
IsRelativeTo(path, workdir) ==
    Len(workdir) <= Len(path) /\ SubSeq(path, 1, Len(workdir)) = workdir

Parent(p) == IF p = <<>> THEN <<>> ELSE Front(p)
Name(p) == IF p = <<>> THEN <<>> ELSE Last(p)

\* a path argument: a string (relative or absolute), or a value that is no string
StrPath(abs, segs) == [t |-> "str", abs |-> abs, segs |-> segs]
Rel(segs) == StrPath(FALSE, segs)
NoPath == [t |-> "none", abs |-> FALSE, segs |-> <<>>]

\* `not relative`: None and the empty string
Falsy(rel) == rel.t = "none" \/ (rel.t = "str" /\ ~rel.abs /\ rel.segs = <<>>)

\* The containment test of _resolve_path, on the strings
Contained(candidate, workdir) == StartsWith(StrAbs(candidate), StrAbs(workdir))

\* _resolve_path: [status, path, error]
resolve_path(workdir, relative) ==
    IF Falsy(relative)
    THEN [status |-> "tool_error", path |-> <<>>, error |-> "Path argument is required."]
    ELSE IF relative.t # "str"
    THEN [status |-> "crash", path |-> <<>>, error |-> "TypeError"]
    ELSE LET candidate == Normalize(<<>>, JoinPath(workdir, relative))
         IN IF ~Contained(candidate, workdir)
            THEN [status |-> "tool_error", path |-> candidate,
                  error |-> "Access outside of workspace is denied."]
            ELSE [status |-> "ok", path |-> candidate, error |-> ""]

\* -------------------------------------------------------------- filesystem
\* The filesystem is a function from the absolute paths that exist to
\* [kind, data]; data is a file's content, a text.
Exists(fs, p) == p \in DOMAIN fs
IsDir(fs, p) == Exists(fs, p) /\ fs[p].kind = "dir"
IsFile(fs, p) == Exists(fs, p) /\ fs[p].kind = "file"

DirNode == [kind |-> "dir", data |-> <<>>]
FileNode(data) == [kind |-> "file", data |-> data]

\* directory.iterdir()
Children(fs, p) == {q \in DOMAIN fs : Len(q) = Len(p) + 1 /\ SubSeq(q, 1, Len(p)) = p}
\* target.rglob("*")
Descendants(fs, p) == {q \in DOMAIN fs : Len(q) > Len(p) /\ SubSeq(q, 1, Len(p)) = p}

Remove(fs, p) == [q \in DOMAIN fs \ {p} |-> fs[q]]
Put(fs, p, node) == [q \in DOMAIN fs \cup {p} |-> IF q = p THEN node ELSE fs[q]]

IoOp(op, p) == [op |-> op, path |-> p]

\* What a tool returns to handle_tool_call: status "ok" (output returned),
\* "tool_error" (ToolExecutionError(error) raised) or "crash" (another exception
\* raised), the filesystem it leaves, the I/O it performed in order, and the
\* tool_log messages it emitted.
ToolResult(status, output, error, fs, io, log) ==
    [status |-> status, output |-> output, error |-> error, fs |-> fs, io |-> io, log |-> log]

ToolError(error, fs) == ToolResult("tool_error", <<>>, error, fs, <<>>, <<>>)

\* an argument value that is a string, or is not one
StrVal(v) == [t |-> "str", v |-> v]
IntVal == [t |-> "int", v |-> <<>>]

\* read_file
read_file(fs, workdir, arguments) ==
    LET r == resolve_path(workdir, Get(arguments, "path", NoPath))
        path == r.path
        max_bytes == Get(arguments, "max_bytes", DefaultMaxBytes)
    IN  IF r.status # "ok" THEN ToolResult(r.status, <<>>, r.error, fs, <<>>, <<>>)
        ELSE IF ~Exists(fs, path) THEN ToolError("File does not exist", fs)
        ELSE IF ~IsFile(fs, path) THEN ToolError("Path is not a file", fs)
        ELSE LET data == Take(fs[path].data, max_bytes)
                 io == <<IoOp("read", path)>>
             IN IF ~IsRelativeTo(path, workdir)
                THEN ToolResult("crash", <<>>, "ValueError", fs, io, <<>>)
                ELSE ToolResult("ok", data, "", fs, io, <<"read">>)

RECURSIVE MissingAncestors(_, _)
\* the directories path.parent.mkdir(parents=True) has to create, outermost first
MissingAncestors(fs, p) ==
    IF p = <<>> \/ Exists(fs, p) THEN <<>>
    ELSE MissingAncestors(fs, Parent(p)) \o <<p>>

RECURSIVE NearestExisting(_, _)
NearestExisting(fs, p) == IF p = <<>> \/ Exists(fs, p) THEN p ELSE NearestExisting(fs, Parent(p))

RECURSIVE MkDirs(_, _)
MkDirs(fs, ps) == IF ps = <<>> THEN fs ELSE MkDirs(Put(fs, Head(ps), DirNode), Tail(ps))

\* write_file
write_file(fs, workdir, arguments) ==
    LET r == resolve_path(workdir, Get(arguments, "path", NoPath))
        path == r.path
        content == Get(arguments, "content", StrVal(<<>>))
    IN  IF r.status # "ok" THEN ToolResult(r.status, <<>>, r.error, fs, <<>>, <<>>)
        ELSE IF content.t # "str" THEN ToolError("Content must be a string.", fs)
        ELSE LET made == MissingAncestors(fs, Parent(path))
                 mkio == [i \in 1..Len(made) |-> IoOp("mkdir", made[i])]
                 fs1 == MkDirs(fs, made)
             IN IF ~IsDir(fs, NearestExisting(fs, Parent(path)))
                THEN \* mkdir: an ancestor is a file
                     ToolResult("crash", <<>>, "OSError", fs, <<>>, <<>>)
                ELSE IF IsDir(fs1, path)
                THEN \* write_text on a directory
                     ToolResult("crash", <<>>, "OSError", fs1, mkio, <<>>)
                ELSE LET fs2 == Put(fs1, path, FileNode(content.v))
                         io == mkio \o <<IoOp("write", path)>>
                     IN IF ~IsRelativeTo(path, workdir)
                        THEN ToolResult("crash", <<>>, "ValueError", fs2, io, <<>>)
                        ELSE ToolResult("ok",
                                 <<"Wrote ", NumStr(Len(content.v)), " bytes to ">>
                                     \o Name(path) \o <<".">>,
                                 "", fs2, io, <<"write">>)

\* list_directory
list_directory(fs, workdir, arguments) ==
    LET given == Get(arguments, "path", NoPath)
        rel_path == IF Falsy(given) THEN Rel(<<Dot>>) ELSE given
        r == resolve_path(workdir, rel_path)
        directory == r.path
    IN  IF r.status # "ok" THEN ToolResult(r.status, <<>>, r.error, fs, <<>>, <<>>)
        ELSE IF ~Exists(fs, directory) THEN ToolError("Directory does not exist", fs)
        ELSE IF ~IsDir(fs, directory) THEN ToolError("Path is not a directory", fs)
        ELSE LET items == Sorted(Children(fs, directory))
                 entries == [i \in 1..Len(items) |->
                                Name(items[i]) \o (IF IsDir(fs, items[i]) THEN <<"/">> ELSE <<>>)]
                 io == <<IoOp("list", directory)>>
             IN IF ~IsRelativeTo(directory, workdir)
                THEN ToolResult("crash", <<>>, "ValueError", fs, io, <<>>)
                ELSE ToolResult("ok", JoinWith("\n", Take(entries, MaxEntries)), "", fs, io,
                                <<"list">>)

RECURSIVE RemoveAll(_, _)
\* the loop of delete_path over sorted(target.rglob("*"), reverse=True):
\* [fs, io, ok]; rmdir of a directory that still has entries raises OSError
RemoveAll(fs, subs) ==
    IF subs = <<>> THEN [fs |-> fs, io |-> <<>>, ok |-> TRUE]
    ELSE LET sub == Head(subs)
         IN IF IsFile(fs, sub)
            THEN LET rest == RemoveAll(Remove(fs, sub), Tail(subs))
                 IN [rest EXCEPT !.io = <<IoOp("unlink", sub)>> \o @]
            ELSE IF IsDir(fs, sub)
            THEN IF Children(fs, sub) # {}
                 THEN [fs |-> fs, io |-> <<>>, ok |-> FALSE]
                 ELSE LET rest == RemoveAll(Remove(fs, sub), Tail(subs))
                      IN [rest EXCEPT !.io = <<IoOp("rmdir", sub)>> \o @]
            ELSE RemoveAll(fs, Tail(subs))

deletion_order_ascending(subs) == Sorted(subs)

\* line 891: sorted(target.rglob("*"), reverse=True)
deletion_order(subs) == Reversed(Sorted(subs))

\* delete_path
delete_path(fs, workdir, arguments) ==
    LET r == resolve_path(workdir, Get(arguments, "path", NoPath))
        target == r.path
        recursive == Get(arguments, "recursive", FALSE)
        done(fs1, io) ==
            IF ~IsRelativeTo(target, workdir)
            THEN ToolResult("crash", <<>>, "ValueError", fs1, io, <<>>)
            ELSE ToolResult("ok", <<"Deleted ">> \o Name(target) \o <<".">>, "", fs1, io,
                            <<"delete">>)
    IN  IF r.status # "ok" THEN ToolResult(r.status, <<>>, r.error, fs, <<>>, <<>>)
        ELSE IF ~Exists(fs, target) THEN ToolError("Path does not exist", fs)
        ELSE IF IsDir(fs, target)
        THEN IF recursive
             THEN LET rm == RemoveAll(fs, deletion_order(Descendants(fs, target)))
                  IN IF ~rm.ok \/ Children(rm.fs, target) # {}
                     THEN ToolResult("crash", <<>>, "OSError", rm.fs, rm.io, <<>>)
                     ELSE done(Remove(rm.fs, target), rm.io \o <<IoOp("rmdir", target)>>)
             ELSE IF Children(fs, target) # {}
                  THEN \* target.rmdir() on a directory that is not empty: OSError
                       ToolResult("crash", <<>>, "OSError", fs, <<>>, <<>>)
                  ELSE done(Remove(fs, target), <<IoOp("rmdir", target)>>)
        ELSE done(Remove(fs, target), <<IoOp("unlink", target)>>)

\* ----------------------------------------------------------- configuration
\* BackendConfig; `configured` is FALSE for self.config = None
NoConfig ==
    [configured |-> FALSE, provider |-> "", api_key |-> "", workdir |-> <<>>,
     auto_approve_reads |-> TRUE, confirm_writes |-> TRUE, confirm_shell |-> TRUE]

provider_unchecked(provider) == TRUE

\* from_payload, line 81: the provider is one of the two supported values
provider_supported(provider) == provider \in {"openai", "anthropic"}

\* BackendConfig.from_payload: [status, config, error]; "value_error" is the
\* ValueError apply_config catches, "crash" any other exception
from_payload(fs, payload) ==
    LET bad(msg) == [status |-> "value_error", config |-> NoConfig, error |-> msg]
    IN  IF {"provider", "apiKey", "model", "workdir"} \ DOMAIN payload # {}
        THEN bad("Missing configuration field")
        ELSE IF payload.workdir.t # "str"
        THEN [status |-> "crash", config |-> NoConfig, error |-> "TypeError"]
        ELSE LET workdir == Normalize(<<>>, payload.workdir.segs)
             IN IF ~provider_supported(payload.provider)
                THEN bad("Provider must be 'openai' or 'anthropic'.")
                ELSE IF payload.apiKey = ""
                THEN bad("API key must not be empty.")
                ELSE IF ~Exists(fs, payload.workdir.segs) \/ ~IsDir(fs, payload.workdir.segs)
                THEN bad("Working directory must reference an existing directory.")
                ELSE [status |-> "ok", error |-> "",
                      config |->
                        [configured |-> TRUE,
                         provider |-> payload.provider,
                         api_key |-> payload.apiKey,
                         workdir |-> workdir,
                         auto_approve_reads |-> Get(payload, "autoApproveReads", TRUE),
                         confirm_writes |-> Get(payload, "confirmWrites", TRUE),
                         confirm_shell |-> Get(payload, "confirmShell", TRUE)]]

\* ------------------------------------------------------------------ events
StatusEvent(status, message) == [type |-> "status", status |-> status, message |-> message]
ErrorEvent(message) == [type |-> "error", message |-> message]
TokenEvent(id, text) == [type |-> "token", id |-> id, text |-> text]
FinalEvent(id, text) == [type |-> "final", id |-> id, text |-> text]
ToolLogEvent(message) == [type |-> "tool_log", message |-> message]
NoError == ""
ToolCallStart(tool_call_id, name, arguments, prompt_id) ==
    [type |-> "tool_call_start", toolCallId |-> tool_call_id, name |-> name,
     arguments |-> arguments, promptId |-> prompt_id]
ToolCallEnd(tool_call_id, result, error) ==
    [type |-> "tool_call_end", toolCallId |-> tool_call_id, result |-> result, error |-> error]
ToolRequest(request_id, action) ==
    [type |-> "tool_request", requestId |-> request_id, action |-> action]
ShellStart(session_id) == [type |-> "shell_start", sessionId |-> session_id]
ShellData(session_id, stream) == [type |-> "shell_data", sessionId |-> session_id, stream |-> stream]
ShellEnd(session_id, exit_code) ==
    [type |-> "shell_end", sessionId |-> session_id, exitCode |-> exit_code]

\* ------------------------------------------------------------------- state
VARIABLES
    config,             \* self.config
    history,            \* self.history: turns [role, content]; owner is the task that appended
    openai_client,      \* self.openai_client: None or the key it was built with
    anthropic_client,   \* self.anthropic_client
    pending_approvals,  \* self.pending_approvals: the request ids that have a future
    futures,            \* the approval futures: request id -> [done, approved, overrides, waiter]
    shell_processes,    \* self.shell_processes: the session ids that have a process
    procs,              \* the child processes: session id -> process
    active_prompt_id,   \* self.active_prompt_id (NoId for None)
    tasks,              \* the prompt tasks created by handle_prompt
    ready,              \* the event loop's queue of ready callbacks, first in first out
    barrier,            \* per event source: ready callbacks queued before it was re-armed
    blocking,           \* the task whose synchronous code holds the loop thread, or 0
    ingest,             \* the ingest loop DeskBackend.run: "running" or "crashed"
    lines,              \* stdin lines handled
    line,               \* the last of them: [type, payload]
    uuid,               \* uuid4 values drawn
    events,             \* the records written to stdout, in order
    fs,                 \* the filesystem
    io,                 \* the filesystem and process operations performed, with their tool call
    calls               \* the tool calls dispatched: what handle_tool_call did with each

vars == <<config, history, openai_client, anthropic_client, pending_approvals, futures,
          shell_processes, procs, active_prompt_id, tasks, ready, barrier, blocking,
          ingest, lines, line, uuid, events, fs, io, calls>>

NoId == 0
Tasks == 1..MaxPrompts

\* segments and paths of the initial filesystem
W == <<"w">>
W2 == <<"w", "2">>
Workdir == <<W>>

InitFs ==
    (<<>> :> DirNode) @@ (<<W>> :> DirNode) @@ (<<W, <<"f">>>> :> FileNode(<<"h", "i">>))
    @@ (<<W, <<"d">>>> :> DirNode) @@ (<<W, <<"d">>, <<"g">>>> :> FileNode(<<>>))
    @@ (<<W2>> :> DirNode) @@ (<<W2, <<"f">>>> :> FileNode(<<"s">>))

\* a task slot before handle_prompt fills it. Three fields record what the program
\* did rather than what it holds: `appended`, the roles of the turns the task has
\* appended to the history, `stale`, that a configuration was applied after the
\* task was created, and `cfg`, the configuration in effect at the task's first step.
NoTask ==
    [pc |-> "none", prompt_id |-> NoId, text |-> <<>>, provider |-> "",
     messages |-> <<>>, round |-> 0, round_id |-> NoId, open |-> 0,
     aggregated_text |-> <<>>, followup_text |-> <<>>, had_followup |-> FALSE,
     tool_results |-> <<>>, tool_uses |-> <<>>, tool_buffers |-> FALSE, ndeltas |-> 0, ncalls |-> 0,
     call |-> NoId, sess |-> NoId, error |-> "", appended |-> <<>>, stale |-> FALSE,
     cfg |-> NoConfig]

Line(type, payload) == [type |-> type, payload |-> payload]

Init ==
    /\ config = NoConfig
    /\ history = <<>>
    /\ openai_client = None
    /\ anthropic_client = None
    /\ pending_approvals = {}
    /\ futures = <<>>
    /\ shell_processes = {}
    /\ procs = <<>>
    /\ active_prompt_id = NoId
    /\ tasks = [t \in Tasks |-> NoTask]
    /\ ready = <<>>
    /\ barrier = [s \in {0} \cup Tasks |-> 0]
    /\ blocking = 0
    /\ ingest = "running"
    /\ lines = 0
    /\ line = Line("none", <<>>)
    /\ uuid = 0
    /\ events = <<StatusEvent("starting", "Awaiting configuration.")>>
    /\ fs = InitFs
    /\ io = <<>>
    /\ calls = <<>>

\* --------------------------------------------------------------- event loop
\* asyncio runs ready callbacks first in first out. A callback queued by a handler
\* (a task's first step, a future's wake-up, a done callback, a coroutine handed to
\* run_coroutine_threadsafe) runs before any event of a source that was re-armed
\* after it was queued: barrier[s] counts the callbacks still ahead of source s
\* (0 is stdin, t > 0 the provider stream of task t).
Stdin == 0
NoEvent == [type |-> "none"]
Item(kind, t, ev) == [kind |-> kind, task |-> t, ev |-> ev]

LoopFree == ingest = "running" /\ blocking = 0
Dec(bar) == [s \in DOMAIN bar |-> IF bar[s] > 0 THEN bar[s] - 1 ELSE 0]
Rearm(bar, s, rq) == [bar EXCEPT ![s] = Len(rq)]

\* the head of the ready queue is a callback of this kind and the loop can run it
Runs(kind) == LoopFree /\ ready # <<>> /\ Head(ready).kind = kind

\* a function with one more (or one changed) entry
With(f, k, v) == [x \in DOMAIN f \cup {k} |-> IF x = k THEN v ELSE f[x]]

\* --------------------------------------------------------------- ingest loop
\* DeskBackend.run, one line: the handler's effect on the ingest loop itself
LineHandled(cmd, rq) ==
    /\ lines' = lines + 1
    /\ line' = cmd
    /\ ready' = rq
    /\ barrier' = Rearm(barrier, Stdin, rq)

CanRead == LoopFree /\ barrier[Stdin] = 0 /\ lines < MaxLines

\* run: a blank line is skipped, a line that is not JSON yields an error event,
\* a JSON value that is no object has no .get (AttributeError ends run)
IngestLine(kind) ==
    /\ CanRead
    /\ CASE kind = "blank" -> events' = events /\ ingest' = ingest
         [] kind = "invalid" ->
              /\ events' = Append(events, ErrorEvent("Invalid JSON from frontend"))
              /\ ingest' = ingest
         [] kind = "not_object" -> events' = events /\ ingest' = "crashed"
         [] kind = "unknown_type" ->
              /\ events' = Append(events, ErrorEvent("Unknown message type"))
              /\ ingest' = ingest
    /\ LineHandled(Line(kind, <<>>), ready)
    /\ UNCHANGED <<config, history, openai_client, anthropic_client, pending_approvals,
                   futures, shell_processes, procs, active_prompt_id, tasks, blocking,
                   uuid, fs, io, calls>>

\* apply_config
apply_config(payload) ==
    /\ CanRead
    /\ LET r == from_payload(fs, payload)
       IN CASE r.status = "value_error" ->
                 /\ events' = Append(events, StatusEvent("error", r.error))
                 /\ UNCHANGED <<config, history, openai_client, anthropic_client, ingest,
                                tasks>>
            [] r.status = "crash" ->
                 /\ ingest' = "crashed"
                 /\ UNCHANGED <<config, history, openai_client, anthropic_client, events,
                                tasks>>
            [] r.status = "ok" ->
                 /\ config' = r.config
                 /\ history' = <<>>
                 /\ openai_client' =
                        IF r.config.provider = "openai" THEN r.config.api_key ELSE None
                 /\ anthropic_client' =
                        IF r.config.provider = "openai" THEN None ELSE r.config.api_key
                 /\ events' = Append(events, StatusEvent("ready", r.config.provider))
                 /\ ingest' = ingest
                 /\ tasks' = [t \in Tasks |-> [tasks[t] EXCEPT !.stale = tasks[t].pc # "none"]]
    /\ LineHandled(Line("config", payload), ready)
    /\ UNCHANGED <<pending_approvals, futures, shell_processes, procs, active_prompt_id,
                   blocking, uuid, fs, io, calls>>

FreeSlots == {t \in Tasks : tasks[t].pc = "none"}

configured_regardless(cfg) == TRUE

\* line 208: `if not self.config`
configured(cfg) == cfg.configured

\* handle_prompt; payload.id is NoId when the command carries no id
handle_prompt(payload) ==
    /\ CanRead
    /\ IF ~configured(config)
       THEN /\ events' = Append(events, ErrorEvent("Backend not configured."))
            /\ LineHandled(Line("prompt", payload), ready)
            /\ UNCHANGED <<active_prompt_id, tasks, uuid>>
       ELSE /\ FreeSlots # {}
            /\ LET t == CHOOSE x \in FreeSlots : \A y \in FreeSlots : x <= y
                   prompt_id == IF payload.id # NoId THEN payload.id ELSE uuid + 1
               IN /\ uuid' = IF payload.id # NoId THEN uuid ELSE uuid + 1
                  /\ active_prompt_id' = prompt_id
                  /\ tasks' = [tasks EXCEPT ![t] =
                        [NoTask EXCEPT !.pc = "created", !.prompt_id = prompt_id,
                                       !.text = payload.text]]
                  /\ LineHandled(Line("prompt", payload), Append(ready, Item("start", t, NoEvent)))
            /\ events' = events
    /\ UNCHANGED <<config, history, openai_client, anthropic_client, pending_approvals,
                   futures, shell_processes, procs, blocking, ingest, fs, io, calls>>

pop_nothing(pending, request_id) == pending

\* resolve_approval, line 237: self.pending_approvals.pop(request_id, None)
pop(pending, request_id) == pending \ {request_id}

\* resolve_approval; payload.requestId is NoId when the command carries none
resolve_approval(payload) ==
    /\ CanRead
    /\ LET request_id == payload.requestId
       IN IF request_id = NoId
          THEN /\ events' = Append(events, ErrorEvent("Approval payload missing requestId."))
               /\ LineHandled(Line("approval", payload), ready)
               /\ UNCHANGED <<pending_approvals, futures>>
          ELSE IF request_id \notin pending_approvals
          THEN /\ events' = Append(events, ErrorEvent("No pending approval"))
               /\ LineHandled(Line("approval", payload), ready)
               /\ UNCHANGED <<pending_approvals, futures>>
          ELSE /\ pending_approvals' = pop(pending_approvals, request_id)
               /\ events' = events
               /\ IF futures[request_id].done
                  THEN LineHandled(Line("approval", payload), ready) /\ futures' = futures
                  ELSE /\ futures' = [futures EXCEPT ![request_id] =
                              [@ EXCEPT !.done = TRUE, !.approved = payload.approved,
                                        !.overrides = payload.overrides]]
                       /\ LineHandled(Line("approval", payload),
                              Append(ready, Item("wake", futures[request_id].waiter, NoEvent)))
    /\ UNCHANGED <<config, history, openai_client, anthropic_client, shell_processes, procs,
                   active_prompt_id, tasks, blocking, ingest, uuid, fs, io, calls>>

\* ------------------------------------------------------------- prompt tasks
\* What a step has built so far: the events written, the tool-call ledger, the ready
\* queue and barriers after the step's own pop, and the uuid counter.
Ctx(evs, cs, rq, bar, uu) == [evs |-> evs, cs |-> cs, rq |-> rq, bar |-> bar, uu |-> uu]
Emit(ctx, ev) == [ctx EXCEPT !.evs = Append(@, ev)]
EmitAll(ctx, evs) == [ctx EXCEPT !.evs = @ \o evs]

\* the step of an external event (nothing popped) and of a ready callback (head popped)
External == Ctx(events, calls, ready, barrier, uuid)
Popped == Ctx(events, calls, Tail(ready), Dec(barrier), uuid)

\* The task suspends with record tk: on its provider stream, on an approval future,
\* or on its shell child.
Suspend(t, tk, ctx) ==
    /\ tasks' = [tasks EXCEPT ![t] = tk]
    /\ events' = ctx.evs
    /\ calls' = ctx.cs
    /\ ready' = ctx.rq
    /\ barrier' = Rearm(ctx.bar, t, ctx.rq)
    /\ uuid' = ctx.uu

\* The task ends, by return (pc "done") or by an exception (pc "failed"): asyncio
\* queues the done callback handle_prompt attached.
EndTask(t, tk, ctx) ==
    /\ tasks' = [tasks EXCEPT ![t] = tk]
    /\ events' = ctx.evs
    /\ calls' = ctx.cs
    /\ ready' = Append(ctx.rq, Item("done_cb", t, NoEvent))
    /\ barrier' = ctx.bar
    /\ uuid' = ctx.uu

\* an exception leaves the task, whose record was tk; a tool call in progress is
\* left without its end
Raise(t, tk, error, ctx) ==
    LET tc == tk.call
        cs == IF tc = NoId THEN ctx.cs
              ELSE [ctx.cs EXCEPT ![tc] = [@ EXCEPT !.state = "raised", !.error = error]]
    IN  /\ EndTask(t, [tk EXCEPT !.pc = "failed", !.error = error, !.call = NoId],
                   [ctx EXCEPT !.cs = cs])
        /\ blocking' = 0

Msg(role, content) ==
    [role |-> role, content |-> content, tool_uses |-> <<>>, tool_results |-> <<>>]

\* _build_messages: the history, then the new user turn
build_messages(user_text) ==
    [i \in 1..Len(history) |-> Msg(history[i].role, history[i].content)]
        \o <<Msg("user", user_text)>>

Turn(role, content, t) == [role |-> role, content |-> content, owner |-> t]

\* The first step of _process_prompt_async: the payload is built from the history as
\* it is now and the stream is opened. The OpenAI client is synchronous: its stream
\* is read inside this step, the loop thread held until the stream ends.
start_prompt ==
    /\ Runs("start")
    /\ LET t == Head(ready).task
           tk == [tasks[t] EXCEPT !.messages = build_messages(tasks[t].text),
                                  !.round_id = tasks[t].prompt_id,
                                  !.provider = config.provider,
                                  !.cfg = config]
       IN IF config.provider = "openai"
          THEN /\ tasks' = [tasks EXCEPT ![t] = [tk EXCEPT !.pc = "oa_stream"]]
               /\ blocking' = t
               /\ ready' = Tail(ready)
               /\ barrier' = Dec(barrier)
               /\ UNCHANGED <<events, calls, uuid>>
          ELSE /\ Suspend(t, [tk EXCEPT !.pc = "stream"], Popped)
               /\ blocking' = blocking
    /\ UNCHANGED <<config, history, openai_client, anthropic_client, pending_approvals,
                   futures, shell_processes, procs, active_prompt_id, ingest, lines, line, fs, io>>

appends_assistant_regardless(final_text, had_followup) == final_text # <<>>

\* line 448: `if final_text and not had_followup`
appends_assistant(final_text, had_followup) == final_text # <<>> /\ ~had_followup

prompt_final_as_round(tk, text) == FinalEvent(tk.round_id, text)

\* line 441: emit_final(prompt_id, final_text)
prompt_final(tk, text) == FinalEvent(tk.prompt_id, text)

\* lines 440-449: the final event is handed to run_coroutine_threadsafe, the user turn
\* appended, and the assistant turn only if there is text and no follow-up happened
Finalize(t, tk, ctx) ==
    LET final_text == Strip(Concat(tk.aggregated_text))
        q == Append(ctx.rq, Item("call_emit", t, prompt_final(tk, final_text)))
        turns == <<Turn("user", tk.text, t)>> \o
                 (IF appends_assistant(final_text, tk.had_followup)
                  THEN <<Turn("assistant", final_text, t)>> ELSE <<>>)
    IN  /\ history' = history \o turns
        /\ EndTask(t, [tk EXCEPT !.pc = "done",
                                 !.appended = @ \o [i \in 1..Len(turns) |-> turns[i].role]],
                   [ctx EXCEPT !.rq = q])
        /\ blocking' = 0

prompt_failed_undescribed(error) == ErrorEvent("Prompt failed: ")

\* line 224: emit_error(f"Prompt failed: {error}")
prompt_failed(error) == ErrorEvent("Prompt failed: " \o error)

\* handle_task_result, the done callback: a failure is reported by a new task running
\* emit_error, and active_prompt_id is cleared either way
handle_task_result ==
    /\ Runs("done_cb")
    /\ LET t == Head(ready).task
       IN /\ ready' = IF tasks[t].pc = "failed"
                      THEN Append(Tail(ready), Item("emit", t, prompt_failed(tasks[t].error)))
                      ELSE Tail(ready)
          /\ tasks' = [tasks EXCEPT ![t] = [@ EXCEPT !.pc =
                            IF @ = "failed" THEN "errored" ELSE "completed"]]
    /\ barrier' = Dec(barrier)
    /\ active_prompt_id' = NoId
    /\ UNCHANGED <<config, history, openai_client, anthropic_client, pending_approvals,
                   futures, shell_processes, procs, blocking, ingest, lines, line, uuid, events,
                   fs, io, calls>>

\* the callback run_coroutine_threadsafe queued: it wraps the coroutine in a task,
\* whose first step is queued in turn
call_emit ==
    /\ Runs("call_emit")
    /\ ready' = Append(Tail(ready), [Head(ready) EXCEPT !.kind = "emit"])
    /\ barrier' = Dec(barrier)
    /\ UNCHANGED <<config, history, openai_client, anthropic_client, pending_approvals,
                   futures, shell_processes, procs, active_prompt_id, tasks, blocking,
                   ingest, lines, line, uuid, events, fs, io, calls>>

\* the task of an emit_* coroutine: emit_event writes the record
emit_event ==
    /\ Runs("emit")
    /\ events' = Append(events, Head(ready).ev)
    /\ ready' = Tail(ready)
    /\ barrier' = Dec(barrier)
    /\ UNCHANGED <<config, history, openai_client, anthropic_client, pending_approvals,
                   futures, shell_processes, procs, active_prompt_id, tasks, blocking,
                   ingest, lines, line, uuid, fs, io, calls>>

\* ---------------------------------------------------------- tool dispatcher
FsTools == {"read_file", "write_file", "list_directory", "delete_path"}

\* handle_tool_call, lines 653-663: whether the call waits for an approval
approval_required(name, cfg) ==
    IF name = "run_shell" THEN cfg.confirm_shell
    ELSE IF name \in {"write_file", "delete_path"} THEN cfg.confirm_writes
    ELSE IF name \in {"read_file", "list_directory"} THEN ~cfg.auto_approve_reads
    ELSE FALSE

\* request_approval's action_map.get(action, action)
action_map(name) ==
    CASE name = "run_shell" -> "shell"
      [] name = "read_file" -> "read"
      [] name = "write_file" -> "write"
      [] name = "list_directory" -> "list"
      [] name = "delete_path" -> "delete"
      [] OTHER -> name

\* the filesystem tool of that name, on the workspace root configured now
run_fs_tool(name, arguments) ==
    CASE name = "read_file" -> read_file(fs, config.workdir, arguments)
      [] name = "write_file" -> write_file(fs, config.workdir, arguments)
      [] name = "list_directory" -> list_directory(fs, config.workdir, arguments)
      [] name = "delete_path" -> delete_path(fs, config.workdir, arguments)

Tagged(tc, ops) == [i \in 1..Len(ops) |-> [call |-> tc, op |-> ops[i].op, path |-> ops[i].path]]

store_result_first(tool_results, r) == <<r>> \o tool_results

\* lines 391-395 and 523-527: tool_results.append({... tool_use_id, content})
store_result(tool_results, r) == Append(tool_results, r)

\* handle_tool_call returns `result` to the stream loop, which stores it as the
\* tool_result of the provider's tool_use id and goes on reading the stream
ReturnCall(t, tk, result, error, ctx) ==
    LET tc == tk.call
        cs == [ctx.cs EXCEPT ![tc] = [@ EXCEPT !.state = "returned", !.result = result,
                                              !.error = error]]
        tk1 == [tk EXCEPT
                 !.pc = "stream", !.call = NoId, !.sess = NoId,
                 !.tool_results = store_result(@, [tool_use_id |-> ctx.cs[tc].tool_use_id,
                                                   content |-> result])]
    IN  Suspend(t, tk1, [Emit(ctx, ToolCallEnd(tc, result, error)) EXCEPT !.cs = cs])

\* handle_tool_call's except ToolExecutionError: an error event, then the failure text
FailCall(t, tk, error, ctx) ==
    ReturnCall(t, tk, <<"Tool execution failed: ", error>>, error,
               Emit(ctx, ErrorEvent(error)))

\* a child process with its two pipes and their readers; `termed` and `timed_out`
\* record that it was sent SIGTERM, and that wait_for timed out on its readers
NewProcess(t, tc, command) ==
    [task |-> t, call |-> tc, command |-> command, exited |-> FALSE, code |-> 0,
     termed |-> FALSE, timed_out |-> FALSE,
     open |-> [stdout |-> TRUE, stderr |-> TRUE],
     done |-> [stdout |-> FALSE, stderr |-> FALSE],
     buffer |-> [stdout |-> <<>>, stderr |-> <<>>]]

\* execute_shell up to its first suspension: shell_start is emitted and the child
\* spawned (create_subprocess_shell forks before it first yields)
ShellBegin(t, tk, arguments, ctx) ==
    LET command == Get(arguments, "command", "")
        session_id == ctx.uu + 1
        ctx1 == [Emit(ctx, ShellStart(session_id)) EXCEPT !.uu = session_id]
    IN  IF command = ""
        THEN /\ FailCall(t, tk, "Shell command missing.", ctx)
             /\ UNCHANGED <<procs, io, blocking>>
        ELSE IF ~IsDir(fs, config.workdir)
        THEN \* cwd is gone: create_subprocess_shell raises
             /\ Raise(t, tk, "OSError", ctx1)
             /\ UNCHANGED <<procs, io>>
        ELSE /\ procs' = With(procs, session_id, NewProcess(t, tk.call, command))
             /\ io' = Append(io, [call |-> tk.call, op |-> "spawn", path |-> config.workdir])
             /\ Suspend(t, [tk EXCEPT !.pc = "sh_spawn", !.sess = session_id], ctx1)
             /\ blocking' = blocking

\* handle_tool_call from line 687: the tool runs on the arguments as they are now
Execute(t, tk, name, arguments, ctx) ==
    IF name = "run_shell"
    THEN ShellBegin(t, tk, arguments, ctx) /\ fs' = fs
    ELSE IF name \in FsTools
    THEN LET r == run_fs_tool(name, arguments)
             logs == [i \in 1..Len(r.log) |-> ToolLogEvent(r.log[i])]
         IN /\ fs' = r.fs
            /\ io' = io \o Tagged(tk.call, r.io)
            /\ procs' = procs
            /\ CASE r.status = "ok" ->
                      /\ ReturnCall(t, tk, r.output, NoError, EmitAll(ctx, logs))
                      /\ blocking' = blocking
                 [] r.status = "tool_error" ->
                      /\ FailCall(t, tk, r.error, ctx)
                      /\ blocking' = blocking
                 [] r.status = "crash" -> Raise(t, tk, r.error, ctx)
    ELSE /\ ReturnCall(t, tk, <<"Unknown tool: ", name>>, NoError, ctx)
         /\ UNCHANGED <<fs, io, procs, blocking>>

\* handle_tool_call from its first line to its first suspension, on a fully
\* specified tool_use block of the stream; tool_use_id is the provider's id
handle_tool_call(t, tool_use_id, name, arguments, ctx) ==
    LET tc == ctx.uu + 1
        gated == approval_required(name, config)
        entry == [id |-> tc, task |-> t, tool_use_id |-> tool_use_id, name |-> name,
                  arguments |-> arguments, promptId |-> tasks[t].round_id,
                  cfg |-> config, gated |-> gated, request |-> NoId,
                  decision |-> "none", state |-> "running", result |-> <<>>,
                  error |-> NoError]
        ctx1 == [Emit(ctx, ToolCallStart(tc, name, arguments, tasks[t].round_id))
                   EXCEPT !.uu = tc, !.cs = With(ctx.cs, tc, entry)]
        tk == [tasks[t] EXCEPT !.call = tc, !.ncalls = @ + 1, !.tool_buffers = TRUE,
                               !.tool_uses = Append(@, [id |-> tool_use_id, name |-> name,
                                                        input |-> arguments])]
        request_id == tc + 1
    IN  IF gated
        THEN IF Get(arguments, "content", StrVal(<<>>)).t = "int"
             THEN \* len() of the content for the request's details: TypeError
                  /\ Raise(t, tk, "TypeError", ctx1)
                  /\ UNCHANGED <<pending_approvals, futures, fs, io, procs>>
             ELSE \* request_approval: the future is stored, tool_request emitted, and awaited
                  /\ pending_approvals' = pending_approvals \cup {request_id}
                  /\ futures' = With(futures, request_id,
                        [done |-> FALSE, approved |-> FALSE, overrides |-> <<>>, waiter |-> t])
                  /\ tasks' = [tasks EXCEPT ![t] = [tk EXCEPT !.pc = "approval"]]
                  /\ events' = Append(ctx1.evs, ToolRequest(request_id, action_map(name)))
                  /\ calls' = [ctx1.cs EXCEPT ![tc] = [@ EXCEPT !.request = request_id,
                                                              !.state = "awaiting"]]
                  /\ ready' = ctx1.rq
                  /\ barrier' = ctx1.bar
                  /\ uuid' = request_id
                  /\ UNCHANGED <<fs, io, procs, blocking>>
        ELSE /\ UNCHANGED <<pending_approvals, futures>>
             /\ Execute(t, tk, name, arguments, ctx1)

await_granted(f) == [approved |-> TRUE, overrides |-> f.overrides]

\* request_approval, lines 741-743: `result = await future; return result`
await_future(f) == [approved |-> f.approved, overrides |-> f.overrides]

\* request_approval resumes with the future's result; handle_tool_call goes on from
\* line 675: a denial ends the call, an approval merges the overrides and executes
approval_result ==
    /\ Runs("wake")
    /\ LET t == Head(ready).task
           tk == tasks[t]
           tc == tk.call
           f == await_future(futures[calls[tc].request])
           arguments == IF f.overrides # <<>> THEN Update(calls[tc].arguments, f.overrides)
                        ELSE calls[tc].arguments
           cs == [calls EXCEPT ![tc] = [@ EXCEPT !.state = "running",
                        !.decision = IF f.approved THEN "approved" ELSE "denied",
                        !.arguments = arguments]]
           ctx == [Popped EXCEPT !.cs = cs]
       IN IF ~f.approved
          THEN /\ ReturnCall(t, tk, <<"User denied the request.">>, "denied",
                             [Popped EXCEPT !.cs = [calls EXCEPT ![tc] =
                                   [@ EXCEPT !.decision = "denied"]]])
               /\ UNCHANGED <<fs, io, procs, blocking>>
          ELSE Execute(t, tk, calls[tc].name, arguments, ctx)
    /\ UNCHANGED <<config, history, openai_client, anthropic_client, pending_approvals,
                   futures, shell_processes, active_prompt_id, ingest, lines, line>>

\* ---------------------------------------------------- the Anthropic stream
\* the task waits for the next event of its stream, and no callback is ahead of it
Awaits(t, pc) == LoopFree /\ tasks[t].pc = pc /\ barrier[t] = 0

\* the text streamed so far in the task's current round
RoundText(tk) == IF tk.round = 0 THEN tk.aggregated_text ELSE tk.followup_text

\* content_block_delta with a text_delta: the token is emitted and accumulated
text_delta(t, delta) ==
    /\ Awaits(t, "stream")
    /\ tasks[t].ndeltas < MaxDeltas
    /\ LET tk == tasks[t]
           tk1 == IF tk.round = 0
                  THEN [tk EXCEPT !.aggregated_text = Append(@, delta), !.ndeltas = @ + 1]
                  ELSE [tk EXCEPT !.followup_text = Append(@, delta), !.ndeltas = @ + 1]
       IN Suspend(t, tk1, Emit(External, TokenEvent(tk.round_id, delta)))
    /\ UNCHANGED <<config, history, openai_client, anthropic_client, pending_approvals,
                   futures, shell_processes, procs, active_prompt_id, blocking, ingest,
                   lines, line, fs, io>>

\* content_block_stop of a tool_use block: the call is dispatched
tool_use(t, name, arguments) ==
    /\ Awaits(t, "stream")
    /\ tasks[t].ncalls < MaxCallsPerRound
    /\ tasks[t].round < MaxToolRounds
    /\ handle_tool_call(t, <<tasks[t].round, tasks[t].ncalls + 1>>, name, arguments, External)
    /\ UNCHANGED <<config, history, openai_client, anthropic_client, shell_processes,
                   active_prompt_id, ingest, lines, line>>

\* message_stop: the loop breaks and the task awaits the final message
message_stop(t) ==
    /\ Awaits(t, "stream")
    /\ LET tk == tasks[t]
           ctx == IF tk.round = 0 /\ ~tk.tool_buffers
                  THEN Emit(External, ToolLogEvent("Response completed without using tools"))
                  ELSE External
       IN Suspend(t, [tk EXCEPT !.pc = "final_msg"], ctx)
    /\ UNCHANGED <<config, history, openai_client, anthropic_client, pending_approvals,
                   futures, shell_processes, procs, active_prompt_id, blocking, ingest,
                   lines, line, fs, io>>

\* the provider's stream raises (the connection breaks, the API rejects the request)
stream_error(t) ==
    /\ Awaits(t, "stream")
    /\ Raise(t, tasks[t], "APIError", External)
    /\ UNCHANGED <<config, history, openai_client, anthropic_client, pending_approvals,
                   futures, shell_processes, procs, active_prompt_id, ingest, lines, line, fs, io>>

\* _handle_tool_results_recursively up to its first suspension: the assistant turn of
\* the round and the tool results are added to the payload and a new stream is opened
\* under a fresh id
start_followup(t, tk, ctx) ==
    LET followup_id == ctx.uu + 1
        assistant == [role |-> "assistant", content |-> Concat(RoundText(tk)),
                      tool_uses |-> tk.tool_uses, tool_results |-> <<>>]
        results == [role |-> "user", content |-> <<>>, tool_uses |-> <<>>,
                    tool_results |-> tk.tool_results]
        ctx1 == [ctx EXCEPT !.uu = followup_id]
    IN  IF anthropic_client = None
        THEN \* self.anthropic_client.messages: no such attribute on None
             Raise(t, tk, "AttributeError", ctx1)
        ELSE /\ Suspend(t, [tk EXCEPT !.pc = "stream",
                                      !.messages = @ \o <<assistant, results>>,
                                      !.round = @ + 1, !.round_id = followup_id,
                                      !.open = @ + 1, !.followup_text = <<>>,
                                      !.tool_results = <<>>, !.tool_uses = <<>>,
                                      !.ncalls = 0, !.ndeltas = 0], ctx1)
             /\ blocking' = blocking

round_final_as_prompt(tk, text) == FinalEvent(tk.prompt_id, text)

\* line 537: emit_final(followup_id, final_followup_text)
round_final(tk, text) == FinalEvent(tk.round_id, text)

followup_turn_whole(tk) == Strip(Concat(tk.aggregated_text \o tk.followup_text))

\* lines 536 and 551: the content of the turn a follow-up round appends
followup_turn(tk) == Strip(Concat(tk.followup_text))

turns_before_recursion_kept(t, text) ==
    IF text # <<>> THEN <<Turn("assistant", text, t)>> ELSE <<>>

\* lines 430-437 and 539-547: a round that ends with tool results recurses into the
\* next round and appends no turn of its own, whatever text it streamed
turns_before_recursion(t, text) == <<>>

\* get_final_message returns. The first round then closes its stream and either
\* recurses or finishes the prompt; a follow-up round emits its final event and
\* either recurses or appends its text to the history.
final_message(t) ==
    /\ Awaits(t, "final_msg")
    /\ LET tk == tasks[t]
           text == Strip(Concat(tk.followup_text))
           ctx == IF tk.round = 0 THEN External
                  ELSE Emit(External, round_final(tk, text))
       IN IF tk.tool_results # <<>>
          THEN /\ start_followup(t, tk, ctx)
               /\ history' = history \o turns_before_recursion(t, Strip(Concat(RoundText(tk))))
          ELSE IF tk.round = 0
          THEN Finalize(t, tk, ctx)
          ELSE /\ history' = IF text # <<>>
                             THEN Append(history, Turn("assistant", followup_turn(tk), t))
                             ELSE history
               /\ Suspend(t, [tk EXCEPT !.pc = "unwind",
                                        !.appended = IF text # <<>>
                                                     THEN Append(@, "assistant") ELSE @],
                          ctx)
               /\ blocking' = blocking
    /\ UNCHANGED <<config, openai_client, anthropic_client, pending_approvals, futures,
                   shell_processes, procs, active_prompt_id, ingest, lines, line, fs, io>>

\* the follow-up streams are closed, innermost first, each close a suspension; back
\* in _process_prompt_async had_followup is set and the prompt finishes
unwind(t) ==
    /\ Awaits(t, "unwind")
    /\ Finalize(t, [tasks[t] EXCEPT !.had_followup = TRUE, !.open = 0], External)
    /\ UNCHANGED <<config, openai_client, anthropic_client, pending_approvals, futures,
                   shell_processes, procs, active_prompt_id, ingest, lines, line, fs, io>>

\* ------------------------------------------------------- the OpenAI stream
\* The stream of the synchronous client is iterated inside the task's step: while
\* it lasts the loop thread runs nothing else.
Holds(t) == ingest = "running" /\ blocking = t /\ tasks[t].pc = "oa_stream"

\* response.output_text.delta: the token is handed to run_coroutine_threadsafe
oa_text_delta(t, delta) ==
    /\ Holds(t)
    /\ tasks[t].ndeltas < MaxDeltas
    /\ tasks' = [tasks EXCEPT ![t] =
                    [@ EXCEPT !.aggregated_text = Append(@, delta), !.ndeltas = @ + 1]]
    /\ ready' = Append(ready, Item("call_emit", t, TokenEvent(tasks[t].prompt_id, delta)))
    /\ UNCHANGED <<config, history, openai_client, anthropic_client, pending_approvals,
                   futures, shell_processes, procs, active_prompt_id, barrier, blocking,
                   ingest, lines, line, uuid, events, fs, io, calls>>

\* response.output_tool_call: handle_tool_call is handed to run_coroutine_threadsafe
\* and its result waited for with Future.result() on the loop's own thread, which
\* therefore never runs it
oa_tool_call(t, name, arguments) ==
    /\ Holds(t)
    /\ tasks' = [tasks EXCEPT ![t] = [@ EXCEPT !.pc = "oa_blocked"]]
    /\ ready' = Append(ready, Item("call_tool", t, [type |-> name]))
    /\ UNCHANGED <<config, history, openai_client, anthropic_client, pending_approvals,
                   futures, shell_processes, procs, active_prompt_id, barrier, blocking,
                   ingest, lines, line, uuid, events, fs, io, calls>>

\* response.completed: the stream is left and the prompt finishes
oa_completed(t) ==
    /\ Holds(t)
    /\ Finalize(t, tasks[t], External)
    /\ UNCHANGED <<config, openai_client, anthropic_client, pending_approvals, futures,
                   shell_processes, procs, active_prompt_id, ingest, lines, line, fs, io>>

oa_stream_error(t) ==
    /\ Holds(t)
    /\ Raise(t, tasks[t], "APIError", External)
    /\ UNCHANGED <<config, history, openai_client, anthropic_client, pending_approvals,
                   futures, shell_processes, procs, active_prompt_id, ingest, lines, line, fs, io>>

\* ----------------------------------------------------------- shell executor
Streams == {"stdout", "stderr"}
Sigterm == -15
NoOutput == <<"(no output)">>

\* the task is inside execute_shell at this point, on this session
InShell(t, pc) == LoopFree /\ tasks[t].pc = pc

\* create_subprocess_shell returns: the session is tracked and the two readers start
shell_spawned(t) ==
    /\ InShell(t, "sh_spawn")
    /\ shell_processes' = shell_processes \cup {tasks[t].sess}
    /\ tasks' = [tasks EXCEPT ![t] = [@ EXCEPT !.pc = "sh_drain"]]
    /\ procs' = [procs EXCEPT ![tasks[t].sess] =
                    [@ EXCEPT !.done = [x \in Streams |-> ~procs[tasks[t].sess].open[x]]]]
    /\ UNCHANGED <<config, history, openai_client, anthropic_client, pending_approvals,
                   futures, active_prompt_id, ready, barrier, blocking, ingest, lines, line,
                   uuid, events, fs, io, calls>>

\* stream_reader: the child writes a line, the reader buffers it and emits shell_data
shell_data(t, stream) ==
    /\ InShell(t, "sh_drain")
    /\ LET sid == tasks[t].sess
       IN /\ procs[sid].open[stream] /\ ~procs[sid].done[stream]
          /\ Len(procs[sid].buffer[stream]) < MaxShellLines
          /\ procs' = [procs EXCEPT ![sid] =
                          [@ EXCEPT !.buffer = [@ EXCEPT ![stream] = Append(@, <<stream>>)]]]
          /\ events' = Append(events, ShellData(sid, stream))
    /\ UNCHANGED <<config, history, openai_client, anthropic_client, pending_approvals,
                   futures, shell_processes, active_prompt_id, tasks, ready, barrier,
                   blocking, ingest, lines, line, uuid, fs, io, calls>>

\* the child closes one of its pipes: that reader reads the end of file and returns
shell_eof(t, stream) ==
    /\ InShell(t, "sh_drain")
    /\ LET sid == tasks[t].sess
       IN /\ procs[sid].open[stream]
          /\ procs' = [procs EXCEPT ![sid] =
                          [@ EXCEPT !.open = [@ EXCEPT ![stream] = FALSE],
                                    !.done = [@ EXCEPT ![stream] = TRUE]]]
    /\ UNCHANGED <<config, history, openai_client, anthropic_client, pending_approvals,
                   futures, shell_processes, active_prompt_id, tasks, ready, barrier,
                   blocking, ingest, lines, line, uuid, events, fs, io, calls>>

\* stream_reader: readline() raises ValueError on a line longer than the reader's
\* limit. gather hands the exception to wait_for, which is not a TimeoutError; in the
\* finally block the other reader is cancelled when the failed one is stderr (stdout
\* comes first in the loop), and `await task` on the failed reader raises again
\* before the session is popped: the exception leaves execute_shell and
\* handle_tool_call.
shell_read_error(t, stream) ==
    /\ InShell(t, "sh_drain")
    /\ LET sid == tasks[t].sess
       IN /\ procs[sid].open[stream] /\ ~procs[sid].done[stream]
          /\ procs' = [procs EXCEPT ![sid] =
                          [@ EXCEPT !.done = [x \in Streams |->
                                IF x = stream \/ stream = "stderr" THEN TRUE ELSE @[x]]]]
    /\ Raise(t, tasks[t], "ValueError", External)
    /\ UNCHANGED <<config, history, openai_client, anthropic_client, pending_approvals,
                   futures, shell_processes, active_prompt_id, ingest, lines, line, fs, io>>

\* the child exits (with -15 once it was sent SIGTERM): its pipes close with it and
\* the loop's child watcher sets process.returncode
child_exit(sid, code) ==
    /\ LoopFree
    /\ sid \in DOMAIN procs
    /\ ~procs[sid].exited
    /\ code = Sigterm <=> procs[sid].termed
    /\ procs' = [procs EXCEPT ![sid] =
                    [@ EXCEPT !.exited = TRUE, !.code = code,
                              !.open = [x \in Streams |-> FALSE],
                              !.done = [x \in Streams |->
                                          IF tasks[procs[sid].task].pc = "sh_drain"
                                          THEN TRUE ELSE @[x]]]]
    /\ UNCHANGED <<config, history, openai_client, anthropic_client, pending_approvals,
                   futures, shell_processes, active_prompt_id, tasks, ready, barrier,
                   blocking, ingest, lines, line, uuid, events, fs, io, calls>>

\* lines 818-829: shell_end, then the combined output or "(no output)"
ShellReturn(t, ctx) ==
    LET sid == tasks[t].sess
        combined == Concat(procs[sid].buffer.stdout) \o Concat(procs[sid].buffer.stderr)
    IN  ReturnCall(t, tasks[t], IF combined # <<>> THEN combined ELSE NoOutput, NoError,
                   Emit(ctx, ShellEnd(sid, procs[sid].code)))

\* wait_for times out while a reader is still reading: the readers are cancelled,
\* the child is sent SIGTERM, the timeout reported, the session dropped in the
\* finally block, and process.wait() awaited there
shell_timeout(t) ==
    /\ InShell(t, "sh_drain")
    /\ LET sid == tasks[t].sess
       IN /\ \E x \in Streams : ~procs[sid].done[x]
          /\ procs' = [procs EXCEPT ![sid] =
                          [@ EXCEPT !.termed = TRUE, !.timed_out = TRUE,
                                    !.done = [x \in Streams |-> TRUE]]]
          /\ shell_processes' = shell_processes \ {sid}
          /\ events' = Append(events, ErrorEvent("Command timed out"))
          /\ tasks' = [tasks EXCEPT ![t] = [@ EXCEPT !.pc = "sh_final"]]
    /\ UNCHANGED <<config, history, openai_client, anthropic_client, pending_approvals,
                   futures, active_prompt_id, ready, barrier, blocking, ingest, lines, line,
                   uuid, fs, io, calls>>

\* both readers have returned: process.wait() is awaited, without a timeout; when the
\* child has exited already the finally block runs at once
shell_drained(t) ==
    /\ InShell(t, "sh_drain")
    /\ LET sid == tasks[t].sess
       IN /\ \A x \in Streams : procs[sid].done[x]
          /\ IF procs[sid].exited
             THEN /\ shell_processes' = shell_processes \ {sid}
                  /\ ShellReturn(t, External)
             ELSE /\ tasks' = [tasks EXCEPT ![t] = [@ EXCEPT !.pc = "sh_exit"]]
                  /\ UNCHANGED <<shell_processes, events, calls, ready, barrier, uuid>>
    /\ UNCHANGED <<config, history, openai_client, anthropic_client, pending_approvals,
                   futures, procs, active_prompt_id, blocking, ingest, lines, line, fs, io>>

\* process.wait() returns, after the drain or in the finally block of the timeout
shell_exited(t) ==
    /\ LoopFree
    /\ tasks[t].pc \in {"sh_exit", "sh_final"}
    /\ procs[tasks[t].sess].exited
    /\ shell_processes' = shell_processes \ {tasks[t].sess}
    /\ ShellReturn(t, External)
    /\ UNCHANGED <<config, history, openai_client, anthropic_client, pending_approvals,
                   futures, procs, active_prompt_id, blocking, ingest, lines, line, fs, io>>

\* handle_kill; payload.sessionId is NoId when the command carries none.
\* Process.terminate() raises ProcessLookupError once the child has exited and its
\* pipes are closed (the transport has dropped its Popen object).
handle_kill(payload) ==
    /\ CanRead
    /\ LET session_id == payload.sessionId
       IN IF session_id = NoId
          THEN /\ events' = Append(events, ErrorEvent("Kill payload missing sessionId."))
               /\ UNCHANGED <<procs, ingest>>
          ELSE IF session_id \notin shell_processes
          THEN /\ events' = Append(events, ErrorEvent("No running shell session"))
               /\ UNCHANGED <<procs, ingest>>
          ELSE IF procs[session_id].exited
          THEN /\ ingest' = "crashed"
               /\ UNCHANGED <<procs, events>>
          ELSE /\ procs' = [procs EXCEPT ![session_id] = [@ EXCEPT !.termed = TRUE]]
               /\ events' = Append(events, ToolLogEvent("stop shell session"))
               /\ ingest' = ingest
    /\ LineHandled(Line("kill", payload), ready)
    /\ UNCHANGED <<config, history, openai_client, anthropic_client, pending_approvals,
                   futures, shell_processes, active_prompt_id, tasks, blocking, uuid, fs,
                   io, calls>>

\* ------------------------------------------------------------------ inputs
\* The commands the frontend sends and the events the provider and the shell
\* children produce are drawn from these sets.
Payload(provider, key, workdir, reads, writes, shell) ==
    [type |-> "config", provider |-> provider, apiKey |-> key, model |-> "m",
     workdir |-> workdir, autoApproveReads |-> reads, confirmWrites |-> writes,
     confirmShell |-> shell]

Without(payload, k) == [x \in DOMAIN payload \ {k} |-> payload[x]]

WorkdirArg == StrPath(TRUE, Workdir)

InvalidConfigs ==
    { Without(Payload("anthropic", "k", WorkdirArg, TRUE, TRUE, TRUE), "model"),
      Payload("gemini", "k", WorkdirArg, TRUE, TRUE, TRUE),
      Payload("openai", "", WorkdirArg, TRUE, TRUE, TRUE),
      Payload("anthropic", "k", StrPath(TRUE, <<<<"o">>>>), TRUE, TRUE, TRUE),
      Payload("openai", "k", StrPath(TRUE, <<W, <<"f">>>>), TRUE, TRUE, TRUE) }

Prompts == {[id |-> i, text |-> <<"q">>] : i \in {NoId, -1}}

Deltas == {<<"a">>, <<" ">>}

File == Rel(<<<<"f">>>>)
Dir == Rel(<<<<"d">>>>)
Escaping == Rel(<<DotDot, <<"o">>>>)
InSibling == Rel(<<DotDot, W2, <<"f">>>>)
Missing == Rel(<<<<"e">>>>)

Call(name, arguments) == [name |-> name, arguments |-> arguments]

ToolCalls ==
    { Call("read_file", [path |-> File]),
      Call("read_file", [path |-> Missing]),
      Call("read_file", [path |-> Escaping]),
      Call("read_file", [path |-> InSibling]),
      Call("write_file", [path |-> File, content |-> StrVal(<<"a">>)]),
      Call("write_file", [path |-> File, content |-> IntVal]),
      Call("write_file", [path |-> InSibling, content |-> StrVal(<<"a">>)]),
      Call("list_directory", [path |-> Dir]),
      Call("delete_path", [path |-> Dir]),
      Call("delete_path", [path |-> Dir, recursive |-> TRUE]),
      Call("run_shell", [command |-> "cmd"]),
      Call("bogus", [path |-> File]) }

Overrides == {<<>>, [path |-> InSibling]}

\* the request ids an approval command may name: none, one that has or had a
\* future, or one that never had
RequestIds == {NoId} \cup DOMAIN futures \cup {uuid + 1}
Decisions ==
    {[approved |-> FALSE, overrides |-> <<>>]}
        \cup {[approved |-> TRUE, overrides |-> o] : o \in Overrides}
Approvals ==
    {[requestId |-> r, approved |-> d.approved, overrides |-> d.overrides] :
        r \in RequestIds, d \in Decisions}

SessionIds == {NoId} \cup DOMAIN procs \cup {uuid + 1}
Kills == {[sessionId |-> x] : x \in SessionIds}

ExitCodes == {0, Sigterm}

LineKinds == {"blank", "invalid", "not_object", "unknown_type"}

\* ------------------------------------------------------------ specifications
\* Spec: the ingest loop. Every kind of stdin line, configurations valid and
\* invalid for both providers, and prompts side by side that stream text.
ChatConfigs == {Payload(p, "k", WorkdirArg, TRUE, TRUE, TRUE) : p \in {"openai", "anthropic"}}
ChatCalls == {Call("bogus", [path |-> File])}

Next ==
    \/ \E kind \in LineKinds : lines < FewLines /\ IngestLine(kind)
    \/ \E payload \in ChatConfigs \cup InvalidConfigs : lines < FewLines /\ apply_config(payload)
    \/ \E payload \in Prompts : lines < FewLines /\ handle_prompt(payload)
    \/ start_prompt
    \/ handle_task_result
    \/ call_emit
    \/ emit_event
    \/ \E t \in Tasks :
        \/ \E delta \in Deltas : text_delta(t, delta)
        \/ message_stop(t)
        \/ stream_error(t)
        \/ final_message(t)
        \/ \E delta \in Deltas : oa_text_delta(t, delta)
        \/ \E c \in ChatCalls : oa_tool_call(t, c.name, c.arguments)
        \/ oa_completed(t)
        \/ oa_stream_error(t)

Spec == Init /\ [][Next]_vars

\* SpecChat: one conversation turn. A prompt on either provider, its rounds of text
\* and of tool calls, and reconfiguration while it runs.

NextChat ==
    \/ \E payload \in ChatConfigs : lines < FewLines /\ apply_config(payload)
    \/ \E payload \in Prompts :
        lines < FewLines /\ FreeSlots = Tasks /\ handle_prompt(payload)
    \/ start_prompt
    \/ handle_task_result
    \/ call_emit
    \/ emit_event
    \/ \E t \in Tasks :
        \/ \E delta \in Deltas : text_delta(t, delta)
        \/ \E c \in ChatCalls : tasks[t].ncalls = 0 /\ tool_use(t, c.name, c.arguments)
        \/ message_stop(t)
        \/ stream_error(t)
        \/ final_message(t)
        \/ unwind(t)
        \/ \E delta \in Deltas : oa_text_delta(t, delta)
        \/ \E c \in ChatCalls : oa_tool_call(t, c.name, c.arguments)
        \/ oa_completed(t)
        \/ oa_stream_error(t)

SpecChat == Init /\ [][NextChat]_vars

\* SpecTools: one prompt on the Anthropic provider under every approval policy, its
\* one round of tool calls drawn from the whole menu, with the approval and kill
\* commands and the shell children.
ToolConfigs ==
    {Payload("anthropic", "k", WorkdirArg, r, w, sh) :
        r \in BOOLEAN, w \in BOOLEAN, sh \in BOOLEAN}

NextTools ==
    \/ \E payload \in ToolConfigs : lines = 0 /\ apply_config(payload)
    \/ \E payload \in Prompts :
        lines < FewLines /\ FreeSlots = Tasks /\ payload.id = NoId /\ handle_prompt(payload)
    \/ \E payload \in Approvals : lines < FewLines /\ resolve_approval(payload)
    \/ \E payload \in Kills : lines < FewLines /\ handle_kill(payload)
    \/ start_prompt
    \/ handle_task_result
    \/ call_emit
    \/ emit_event
    \/ approval_result
    \/ \E t \in Tasks :
        \/ \E c \in ToolCalls :
            tasks[t].round = 0 /\ tasks[t].ncalls = 0 /\ tool_use(t, c.name, c.arguments)
        \/ message_stop(t)
        \/ final_message(t)
        \/ unwind(t)
        \/ shell_spawned(t)
        \/ \E stream \in Streams : shell_data(t, stream)
        \/ \E stream \in Streams : shell_eof(t, stream)
        \/ shell_timeout(t)
        \/ shell_drained(t)
        \/ shell_exited(t)
    \/ \E sid \in DOMAIN procs, code \in ExitCodes : child_exit(sid, code)

SpecTools == Init /\ [][NextTools]_vars

\* SpecApproval: the approval broker. Prompts side by side under a policy that gates
\* every call, each with one call waiting for its decision, and approval commands
\* naming pending, resolved, unknown and missing request ids.
GatedConfig == Payload("anthropic", "k", WorkdirArg, FALSE, TRUE, TRUE)
GatedCalls == {Call("read_file", [path |-> File])}

NextApproval ==
    \/ lines = 0 /\ apply_config(GatedConfig)
    \/ \E payload \in Prompts : payload.id = NoId /\ handle_prompt(payload)
    \/ \E payload \in Approvals : resolve_approval(payload)
    \/ start_prompt
    \/ handle_task_result
    \/ call_emit
    \/ emit_event
    \/ approval_result
    \/ \E t \in Tasks :
        \/ \E c \in GatedCalls :
            tasks[t].round = 0 /\ tasks[t].ncalls = 0 /\ tool_use(t, c.name, c.arguments)
        \/ message_stop(t)
        \/ final_message(t)
        \/ unwind(t)

SpecApproval == Init /\ [][NextApproval]_vars

\* SpecFailure: prompts side by side on either provider, each with rounds of tool
\* calls, whose streams break at any round.
NextFailure ==
    \/ \E payload \in ChatConfigs : lines = 0 /\ apply_config(payload)
    \/ \E payload \in Prompts : payload.id = NoId /\ lines < FewLines /\ handle_prompt(payload)
    \/ start_prompt
    \/ handle_task_result
    \/ call_emit
    \/ emit_event
    \/ \E t \in Tasks :
        \/ \E c \in ChatCalls : tasks[t].ncalls = 0 /\ tool_use(t, c.name, c.arguments)
        \/ message_stop(t)
        \/ stream_error(t)
        \/ final_message(t)
        \/ unwind(t)
        \/ oa_completed(t)
        \/ oa_stream_error(t)

SpecFailure == Init /\ [][NextFailure]_vars

\* SpecShell: the shell executor. One prompt whose rounds run shell commands, with
\* nothing gated: children that write, close their pipes, exit, write a line the
\* reader refuses, run into the timeout or are killed, and a command spawned after
\* the workspace root was deleted.
ShellConfig == Payload("anthropic", "k", WorkdirArg, TRUE, FALSE, FALSE)
Root == Rel(<<Dot>>)
ShellCalls ==
    { Call("run_shell", [command |-> "cmd"]),
      Call("delete_path", [path |-> Root, recursive |-> TRUE]) }

NextShell ==
    \/ lines = 0 /\ apply_config(ShellConfig)
    \/ \E payload \in Prompts :
        lines < FewLines /\ FreeSlots = Tasks /\ payload.id = NoId /\ handle_prompt(payload)
    \/ \E payload \in Kills : lines < FewLines /\ handle_kill(payload)
    \/ start_prompt
    \/ handle_task_result
    \/ call_emit
    \/ emit_event
    \/ \E t \in Tasks :
        \/ \E c \in ShellCalls : tasks[t].ncalls = 0 /\ tool_use(t, c.name, c.arguments)
        \/ message_stop(t)
        \/ final_message(t)
        \/ unwind(t)
        \/ shell_spawned(t)
        \/ \E stream \in Streams : shell_data(t, stream)
        \/ \E stream \in Streams : shell_eof(t, stream)
        \/ \E stream \in Streams : shell_read_error(t, stream)
        \/ shell_timeout(t)
        \/ shell_drained(t)
        \/ shell_exited(t)
    \/ \E sid \in DOMAIN procs, code \in ExitCodes : child_exit(sid, code)

SpecShell == Init /\ [][NextShell]_vars

\* SpecRounds: the continuation rounds. One prompt on the Anthropic provider, with
\* reads approved automatically or gated: rounds that stream text and carry up to
\* MaxCallsPerRound tool calls each, reading a file with content and an empty one.
RoundsConfigs == {Payload("anthropic", "k", WorkdirArg, r, FALSE, FALSE) : r \in BOOLEAN}
EmptyFile == Rel(<<<<"d">>, <<"g">>>>)
RoundCalls ==
    { Call("read_file", [path |-> File]),
      Call("read_file", [path |-> EmptyFile]) }

NextRounds ==
    \/ \E payload \in RoundsConfigs : lines = 0 /\ apply_config(payload)
    \/ \E payload \in Prompts :
        lines < FewLines /\ FreeSlots = Tasks /\ payload.id = NoId /\ handle_prompt(payload)
    \/ \E payload \in Approvals :
        payload.requestId \in pending_approvals /\ resolve_approval(payload)
    \/ start_prompt
    \/ handle_task_result
    \/ call_emit
    \/ emit_event
    \/ approval_result
    \/ \E t \in Tasks :
        \/ \E delta \in Deltas : text_delta(t, delta)
        \/ \E c \in RoundCalls : tool_use(t, c.name, c.arguments)
        \/ message_stop(t)
        \/ final_message(t)
        \/ unwind(t)

SpecRounds == Init /\ [][NextRounds]_vars

\* SpecDelete: delete_path on directory trees. The workspace holds one of several
\* trees under d: empty, with files, with nested directories, beside a sibling whose
\* name starts alike; one prompt deletes d or a directory under it, recursively or not.
Seg(name) == <<name>>
D2 == <<"d", "2">>
BaseFs == (<<>> :> DirNode) @@ (<<W>> :> DirNode)
Tree(dirs, files) ==
    [p \in DOMAIN BaseFs \cup dirs \cup files |->
        IF p \in DOMAIN BaseFs \cup dirs THEN DirNode ELSE FileNode(<<"x">>)]
DeleteTrees ==
    { Tree({<<W, Seg("d")>>}, {}),
      Tree({<<W, Seg("d")>>}, {<<W, Seg("d"), Seg("g")>>, <<W, Seg("d"), Seg("f")>>}),
      Tree({<<W, Seg("d")>>, <<W, Seg("d"), Seg("e")>>},
           {<<W, Seg("d"), Seg("e"), Seg("f")>>, <<W, Seg("d"), Seg("g")>>}),
      Tree({<<W, Seg("d")>>, <<W, Seg("d"), Seg("e")>>},
           {<<W, Seg("d"), Seg("g")>>, <<W, D2>>}),
      Tree({<<W, Seg("d")>>, <<W, Seg("d"), Seg("e")>>, <<W, Seg("d"), Seg("e"), Seg("d")>>,
            <<W, D2>>},
           {<<W, Seg("d"), Seg("e"), Seg("d"), Seg("f")>>, <<W, D2, Seg("f")>>,
            <<W, Seg("d"), D2>>}) }

DeleteConfig == Payload("anthropic", "k", WorkdirArg, TRUE, FALSE, FALSE)
SubDir == Rel(<<Seg("d"), Seg("e")>>)
DeleteCalls ==
    {Call("delete_path", [path |-> p, recursive |-> r]) : p \in {Dir, SubDir}, r \in BOOLEAN}

InitDelete ==
    /\ fs \in DeleteTrees
    /\ config = NoConfig
    /\ history = <<>>
    /\ openai_client = None
    /\ anthropic_client = None
    /\ pending_approvals = {}
    /\ futures = <<>>
    /\ shell_processes = {}
    /\ procs = <<>>
    /\ active_prompt_id = NoId
    /\ tasks = [t \in Tasks |-> NoTask]
    /\ ready = <<>>
    /\ barrier = [s \in {0} \cup Tasks |-> 0]
    /\ blocking = 0
    /\ ingest = "running"
    /\ lines = 0
    /\ line = Line("none", <<>>)
    /\ uuid = 0
    /\ events = <<StatusEvent("starting", "Awaiting configuration.")>>
    /\ io = <<>>
    /\ calls = <<>>

NextDelete ==
    \/ lines = 0 /\ apply_config(DeleteConfig)
    \/ \E payload \in Prompts :
        lines < FewLines /\ FreeSlots = Tasks /\ payload.id = NoId /\ handle_prompt(payload)
    \/ start_prompt
    \/ handle_task_result
    \/ call_emit
    \/ emit_event
    \/ \E t \in Tasks :
        \/ \E c \in DeleteCalls : tasks[t].round = 0 /\ tool_use(t, c.name, c.arguments)
        \/ message_stop(t)
        \/ final_message(t)
        \/ unwind(t)

SpecDelete == InitDelete /\ [][NextDelete]_vars

\* SpecTimeout: one run_shell call under fairness. The backend's own steps are
\* taken whenever they stay enabled: the loop runs its callbacks, the readers return
\* on end of file, the timer of wait_for fires while a reader is still reading, and
\* process.wait() returns once the child has exited. What the child does (write,
\* close a pipe, exit) is up to the child and carries no fairness.
TimeoutCalls == {c \in ShellCalls : c.name = "run_shell"}

NextTimeout ==
    \/ lines = 0 /\ apply_config(ShellConfig)
    \/ \E payload \in Prompts :
        lines < FewLines /\ FreeSlots = Tasks /\ payload.id = NoId /\ handle_prompt(payload)
    \/ start_prompt
    \/ handle_task_result
    \/ call_emit
    \/ emit_event
    \/ \E t \in Tasks :
        \/ \E c \in TimeoutCalls : tasks[t].ncalls = 0 /\ tool_use(t, c.name, c.arguments)
        \/ message_stop(t)
        \/ final_message(t)
        \/ unwind(t)
        \/ shell_spawned(t)
        \/ \E stream \in Streams : shell_data(t, stream)
        \/ \E stream \in Streams : shell_eof(t, stream)
        \/ shell_timeout(t)
        \/ shell_drained(t)
        \/ shell_exited(t)
    \/ \E sid \in DOMAIN procs, code \in ExitCodes : child_exit(sid, code)

BackendFairness ==
    /\ WF_vars(start_prompt) /\ WF_vars(handle_task_result)
    /\ WF_vars(call_emit) /\ WF_vars(emit_event)
    /\ \A t \in Tasks :
        /\ WF_vars(message_stop(t)) /\ WF_vars(final_message(t)) /\ WF_vars(unwind(t))
        /\ WF_vars(shell_spawned(t)) /\ WF_vars(shell_timeout(t))
        /\ WF_vars(shell_drained(t)) /\ WF_vars(shell_exited(t))

SpecTimeout == Init /\ [][NextTimeout]_vars /\ BackendFairness

\* SpecProgress: one prompt under fairness, on either provider, under a policy that
\* gates reads. The backend takes its steps, the provider's stream comes to its end,
\* and the frontend answers every approval request that is pending; the number of
\* tool rounds is bounded by MaxToolRounds.
ProgressConfigs == {Payload(p, "k", WorkdirArg, FALSE, TRUE, TRUE) : p \in {"openai", "anthropic"}}

AnswerApproval ==
    \E payload \in Approvals :
        payload.requestId \in pending_approvals /\ resolve_approval(payload)

NextProgress ==
    \/ \E payload \in ProgressConfigs : lines = 0 /\ apply_config(payload)
    \/ \E payload \in Prompts : lines = 1 /\ payload.id = NoId /\ handle_prompt(payload)
    \/ AnswerApproval
    \/ start_prompt
    \/ handle_task_result
    \/ call_emit
    \/ emit_event
    \/ approval_result
    \/ \E t \in Tasks :
        \/ \E delta \in Deltas : text_delta(t, delta)
        \/ \E c \in GatedCalls : tasks[t].ncalls = 0 /\ tool_use(t, c.name, c.arguments)
        \/ message_stop(t)
        \/ stream_error(t)
        \/ final_message(t)
        \/ unwind(t)
        \/ \E delta \in Deltas : oa_text_delta(t, delta)
        \/ \E c \in GatedCalls : oa_tool_call(t, c.name, c.arguments)
        \/ oa_completed(t)
        \/ oa_stream_error(t)

SpecProgress ==
    /\ Init /\ [][NextProgress]_vars
    /\ BackendFairness
    /\ WF_vars(approval_result) /\ WF_vars(AnswerApproval)
    /\ \A t \in Tasks : WF_vars(oa_completed(t))

\* SpecHistory: the conversation history under prompts in flight side by side on
\* the Anthropic provider: each streams text, may call a tool in its first round and
\* stream text again in the follow-up round, and its stream may break in any round.
HistoryConfig == Payload("anthropic", "k", WorkdirArg, TRUE, TRUE, TRUE)

NextHistory ==
    \/ lines = 0 /\ apply_config(HistoryConfig)
    \/ \E payload \in Prompts : payload.id = NoId /\ lines < FewLines /\ handle_prompt(payload)
    \/ start_prompt
    \/ handle_task_result
    \/ call_emit
    \/ emit_event
    \/ \E t \in Tasks :
        \/ text_delta(t, <<"a">>)
        \/ \E c \in ChatCalls :
            tasks[t].round = 0 /\ tasks[t].ncalls = 0 /\ tool_use(t, c.name, c.arguments)
        \/ message_stop(t)
        \/ stream_error(t)
        \/ final_message(t)
        \/ unwind(t)

SpecHistory == Init /\ [][NextHistory]_vars

\* SpecReconfig: configuration commands while a prompt is in flight. Two
\* configurations that differ in the workspace root and in the gating of reads are
\* applied in any order, before and after the prompt has started and while its
\* approval request is pending; the prompt reads a file that both workspaces hold.
ReconfigConfigs ==
    { Payload("anthropic", "k", WorkdirArg, TRUE, FALSE, FALSE),
      Payload("anthropic", "k", StrPath(TRUE, <<W2>>), FALSE, FALSE, FALSE) }

NextReconfig ==
    \/ \E payload \in ReconfigConfigs : lines < 3 /\ apply_config(payload)
    \/ \E payload \in Prompts :
        lines < FewLines /\ FreeSlots = Tasks /\ payload.id = NoId /\ handle_prompt(payload)
    \/ \E payload \in Approvals :
        payload.requestId \in pending_approvals /\ resolve_approval(payload)
    \/ start_prompt
    \/ handle_task_result
    \/ call_emit
    \/ emit_event
    \/ approval_result
    \/ \E t \in Tasks :
        \/ \E c \in GatedCalls :
            tasks[t].round = 0 /\ tasks[t].ncalls = 0 /\ tool_use(t, c.name, c.arguments)
        \/ message_stop(t)
        \/ final_message(t)
        \/ unwind(t)

SpecReconfig == Init /\ [][NextReconfig]_vars

\* ------------------------------------------------------------------ claims
Count(s, x) == Cardinality({i \in 1..Len(s) : s[i] = x})

\* the prompt of task t has completed without error
Completed(t) == tasks[t].pc \in {"done", "completed"}

\* the stripped text of the last round the prompt streamed
LastRoundText(t) ==
    Strip(Concat(IF tasks[t].round = 0 THEN tasks[t].aggregated_text
                 ELSE tasks[t].followup_text))

\* C1 (as the code has it): a prompt that completed without error, after any number
\* of tool rounds, has appended exactly one user turn to the history and at most one
\* assistant turn: exactly one when the stripped text of its last round is not
\* empty, none when it is empty.
C1_TurnsPerPrompt ==
    \A t \in Tasks :
        Completed(t) =>
            /\ Count(tasks[t].appended, "user") = 1
            /\ Count(tasks[t].appended, "assistant")
                 = (IF LastRoundText(t) # <<>> THEN 1 ELSE 0)

\* C1 as stated: exactly one user turn and exactly one assistant turn, whatever the text
C1_OneUserOneAssistant ==
    \A t \in Tasks :
        Completed(t) =>
            /\ Count(tasks[t].appended, "user") = 1
            /\ Count(tasks[t].appended, "assistant") = 1

\* a prompt completed after two tool rounds that all streamed text, and appended both turns
C1_Witness ==
    \E t \in Tasks :
        /\ tasks[t].pc = "completed"
        /\ tasks[t].round >= 2
        /\ tasks[t].aggregated_text # <<>>
        /\ LastRoundText(t) # <<>>
        /\ Len(tasks[t].appended) = 2

\* the filesystem and process operations tool call tc has performed
Effects(tc) == {i \in 1..Len(io) : io[i].call = tc}

\* the decision the frontend has sent for the request of tool call tc, if any
Decided(tc) == calls[tc].request # NoId /\ futures[calls[tc].request].done
Granted(tc) == Decided(tc) /\ futures[calls[tc].request].approved
Refused(tc) == Decided(tc) /\ ~futures[calls[tc].request].approved

Denial == <<"User denied the request.">>

\* C2: a tool call that policy gates performs a filesystem or process operation only
\* once an approval command with approved = true has been received for its request;
\* a call whose request was denied performs none, and once it has resumed it has
\* returned the fixed text "User denied the request." and emitted a tool_call_end
\* that carries an error marker.
C2_NoEffectBeforeApproval ==
    \A tc \in DOMAIN calls :
        calls[tc].gated =>
            /\ Effects(tc) # {} => Granted(tc)
            /\ Refused(tc) =>
                /\ Effects(tc) = {}
                /\ calls[tc].state \in {"awaiting", "returned"}
                /\ calls[tc].state = "returned" =>
                    /\ calls[tc].result = Denial
                    /\ \E i \in 1..Len(events) :
                        /\ events[i].type = "tool_call_end"
                        /\ events[i].toolCallId = tc
                        /\ events[i].result = Denial
                        /\ events[i].error # NoError

\* a gated write was denied and has returned: the file is as it was
C2_Witness ==
    \E tc \in DOMAIN calls :
        /\ calls[tc].gated /\ calls[tc].name = "write_file"
        /\ Refused(tc) /\ calls[tc].state = "returned"
        /\ fs = InitFs

\* C3: the filesystem tools touch the filesystem only at the workspace root or inside it
C3_IoInsideWorkspace ==
    \A i \in 1..Len(io) :
        io[i].op # "spawn" => IsRelativeTo(io[i].path, calls[io[i].call].cfg.workdir)

\* a prompt is in flight: its task has started and has not ended
InFlight(t) == tasks[t].pc \notin {"none", "created", "done", "completed", "failed", "errored"}

\* C4: while a prompt is in flight, on either provider, the loop thread is free to
\* run the ingest loop, which reads and handles the next command
C4_IngestServiceable == \A t \in Tasks : InFlight(t) => blocking = 0

\* the stdin line just handled was an approval command
ApprovalStep == lines' = lines + 1 /\ line'.type = "approval"

\* the task whose tool call created request r
Creator(r) == CHOOSE t \in Tasks :
                 tasks[t].call \in DOMAIN calls /\ calls[tasks[t].call].request = r

\* C5: the first approval command that names a request completes its future with the
\* command's (approved, overrides) and wakes the task whose tool call created it, and
\* nothing else; a later command with that id, or one with an unknown or a missing
\* id, appends one error event and changes no future, no pending request and no
\* task. A call that has taken a decision has taken the one sent for its request.
C5_ResolvedAtMostOnce ==
    [][ /\ ApprovalStep =>
            LET p == line'.payload
                r == p.requestId
            IN IF r \in DOMAIN futures /\ ~futures[r].done
               THEN /\ futures' = [futures EXCEPT ![r] =
                          [done |-> TRUE, approved |-> p.approved,
                           overrides |-> p.overrides, waiter |-> Creator(r)]]
                    /\ ready' = Append(ready, Item("wake", Creator(r), NoEvent))
                    /\ pending_approvals' = pending_approvals \ {r}
                    /\ UNCHANGED <<events, tasks, calls>>
               ELSE /\ Len(events') = Len(events) + 1
                    /\ Last(events').type = "error"
                    /\ UNCHANGED <<futures, pending_approvals, ready, tasks, calls>>
        /\ \A tc \in DOMAIN calls' :
            calls'[tc].decision # "none" =>
                LET f == futures'[calls'[tc].request]
                IN /\ f.done
                   /\ calls'[tc].decision = (IF f.approved THEN "approved" ELSE "denied")
      ]_vars

\* a command named a request that was resolved before: an error event is the last
\* record written, and another request is still pending
C5_Witness ==
    /\ line.type = "approval"
    /\ line.payload.requestId \in DOMAIN futures
    /\ line.payload.requestId \notin pending_approvals
    /\ Last(events).type = "error"
    /\ \E r \in pending_approvals : r # line.payload.requestId /\ ~futures[r].done
    /\ \E tc \in DOMAIN calls : calls[tc].request = line.payload.requestId
                                  /\ calls[tc].decision # "none"

\* the policy of section 4.4 on a dispatched call
PolicyRequires(c) ==
    \/ c.name = "run_shell" /\ c.cfg.confirm_shell
    \/ c.name \in {"write_file", "delete_path"} /\ c.cfg.confirm_writes
    \/ c.name \in {"read_file", "list_directory"} /\ ~c.cfg.auto_approve_reads

\* a tool_request event was emitted for tool call tc
Requested(tc) ==
    \E i \in 1..Len(events) :
        /\ events[i].type = "tool_request"
        /\ events[i].requestId = calls[tc].request

\* C6: a tool_request event is emitted for a tool call if and only if the policy
\* requires approval for it
C6_RequestIffPolicy ==
    \A tc \in DOMAIN calls : Requested(tc) <=> PolicyRequires(calls[tc])

\* the stdin line just handled was a configuration command
ConfigStep == lines' = lines + 1 /\ line'.type = "config"

\* a configuration payload that fails the validation the specification lists
FailsValidation(payload) ==
    \/ {"provider", "apiKey", "model", "workdir"} \ DOMAIN payload # {}
    \/ payload.provider \notin {"openai", "anthropic"}
    \/ payload.apiKey = ""
    \/ ~IsDir(fs, payload.workdir.segs)

\* C7: a configuration command that fails validation emits one status event with
\* status "error" and leaves the configuration, both provider clients and the
\* history as they were.
C7_FailedConfigKeepsState ==
    [][ (ConfigStep /\ FailsValidation(line'.payload)) =>
            /\ Len(events') = Len(events) + 1
            /\ Last(events').type = "status" /\ Last(events').status = "error"
            /\ UNCHANGED <<config, openai_client, anthropic_client, history>>
      ]_vars

\* an invalid configuration was refused while a configuration and a history were there
C7_Witness ==
    /\ line.type = "config"
    /\ FailsValidation(line.payload)
    /\ Last(events).type = "status" /\ Last(events).status = "error"
    /\ config.configured
    /\ history # <<>>

\* task t is the first prompt started since the configuration now in force was applied
FirstSinceConfig(t) ==
    /\ tasks[t].pc \notin {"none", "created"}
    /\ ~tasks[t].stale
    /\ \A u \in Tasks \ {t} : tasks[u].pc = "none" \/ tasks[u].stale

\* C8: the first prompt started after a configuration was applied is processed against
\* an empty history: the payload of its first round holds only its own user turn
C8_FreshHistoryAfterConfig ==
    \A t \in Tasks :
        (FirstSinceConfig(t) /\ tasks[t].round = 0) =>
            tasks[t].messages = <<Msg("user", tasks[t].text)>>

\* the path a filesystem call names, resolved against the workspace root of its time
Target(c) == Normalize(<<>>, JoinPath(c.cfg.workdir, Get(c.arguments, "path", NoPath)))

\* the tool execution errors the specification names, on the initial filesystem
NamedToolError(c) ==
    /\ c.name \in FsTools
    /\ \/ ~IsRelativeTo(Target(c), c.cfg.workdir)
       \/ c.name = "read_file" /\ ~Exists(InitFs, Target(c))
       \/ c.name = "write_file" /\ Get(c.arguments, "content", StrVal(<<>>)).t # "str"
       \/ /\ c.name = "delete_path" /\ ~Get(c.arguments, "recursive", FALSE)
          /\ Children(InitFs, Target(c)) # {}

\* C9: a tool call that meets one of the named tool execution errors does not end by
\* an exception that leaves the dispatcher and fails the prompt
C9_ToolErrorsCaught ==
    \A tc \in DOMAIN calls : NamedToolError(calls[tc]) => calls[tc].state # "raised"

\* the positions in the event log of the tool_call_start and tool_call_end of call tc
Starts(tc) == {i \in 1..Len(events) :
                 events[i].type = "tool_call_start" /\ events[i].toolCallId = tc}
Ends(tc) == {i \in 1..Len(events) :
               events[i].type = "tool_call_end" /\ events[i].toolCallId = tc}

\* C10: once the prompt that dispatched a tool call is over, the call's tool_call_start
\* has exactly one tool_call_end after it
C10_StartHasOneEnd ==
    \A tc \in DOMAIN calls :
        ~InFlight(calls[tc].task) =>
            /\ Cardinality(Ends(tc)) = 1
            /\ \A i \in Starts(tc), j \in Ends(tc) : i < j

\* the unit of work of task t has failed with an exception
Failed(t) == tasks[t].pc \in {"failed", "errored"}

\* an error event that carries the description of the failure of task t was written
Reported(t) ==
    \E i \in 1..Len(events) :
        /\ events[i].type = "error"
        /\ events[i].message = "Prompt failed: " \o tasks[t].error

\* the done callback of task t, or the emit_error task it created, is still queued
ReportQueued(t) ==
    \E i \in 1..Len(ready) : ready[i].task = t /\ ready[i].kind \in {"done_cb", "emit"}

\* C11: when the unit of work of a prompt fails with an exception, at any round, the
\* step that fails it leaves the ingest loop running, the loop thread free and every
\* other prompt as it was; and the failure is reported: an error event carrying the
\* description has been written, or the callback that writes it is queued on the loop.
C11_FailureReported ==
    [][ /\ \A t \in Tasks :
            (~Failed(t) /\ Failed(t)') =>
                /\ ingest' = "running" /\ blocking' = 0
                /\ \A u \in Tasks \ {t} : tasks'[u] = tasks[u]
        /\ \A t \in Tasks : Failed(t)' => (Reported(t)' \/ ReportQueued(t)')
      ]_vars

\* a prompt failed in a follow-up round and was reported, and the prompt that was in
\* flight beside it went on through a tool round of its own and completed
C11_Witness ==
    \E t \in Tasks, u \in Tasks :
        /\ t # u
        /\ tasks[t].pc = "errored" /\ tasks[t].round >= 1 /\ Reported(t)
        /\ tasks[u].pc = "completed" /\ tasks[u].round >= 1
        /\ ingest = "running"

\* the records written by the step
Written == SubSeq(events', Len(events) + 1, Len(events'))

\* C12: whatever the inbound line, the step that handles it leaves the ingest loop
\* running, ready to read the next line, and writes at most error and status
\* events: nothing for a blank line, one error event for a line that is not JSON
C12_IngestSurvives ==
    [][ lines' = lines + 1 =>
            /\ ingest' = "running"
            /\ Len(events') >= Len(events)
            /\ \A i \in 1..Len(Written) : Written[i].type \in {"error", "status"}
            /\ line'.type = "blank" => Written = <<>>
            /\ line'.type = "invalid" =>
                    Len(Written) = 1 /\ Written[1].type = "error"
      ]_vars

\* the run_shell call of session sid has returned to the stream loop
ShellCallReturned(sid) == calls[procs[sid].call].state = "returned"

\* C13: when a run_shell call whose wait timed out has returned, its child was sent
\* the termination signal, an error event announcing the timeout was written, the
\* shell_end event of the session carries the exit code -1, and the session is not
\* in the table of live sessions
C13_TimeoutReportsSentinel ==
    \A sid \in DOMAIN procs :
        (procs[sid].timed_out /\ ShellCallReturned(sid)) =>
            /\ procs[sid].termed
            /\ sid \notin shell_processes
            /\ \E i \in 1..Len(events) :
                    events[i].type = "error" /\ events[i].message = "Command timed out"
            /\ \E i \in 1..Len(events) :
                    /\ events[i].type = "shell_end"
                    /\ events[i].sessionId = sid
                    /\ events[i].exitCode = -1

\* C14: the table of pending approvals holds only requests that are unresolved and
\* have a suspended tool call waiting on them, and the table of live sessions holds
\* only sessions whose process has neither exited nor been sent the termination signal
C14_TablesHoldLiveEntries ==
    /\ \A r \in pending_approvals :
            /\ ~futures[r].done
            /\ \E t \in Tasks :
                    /\ tasks[t].pc = "approval"
                    /\ calls[tasks[t].call].request = r
    /\ \A sid \in shell_processes : ~procs[sid].exited /\ ~procs[sid].termed

\* the run_shell call of session sid is over: it returned, or an exception left it
ShellCallOver(sid) == calls[procs[sid].call].state \in {"returned", "raised"}

\* C15: once the run_shell call that created a session is over, by whatever path, the
\* session is not in the table of live sessions
C15_SessionEndsWithCall ==
    \A sid \in DOMAIN procs : ShellCallOver(sid) => sid \notin shell_processes

\* the positions in the event log of the events of one type that carry session sid
ShellEvents(type, sid) ==
    {i \in 1..Len(events) : events[i].type = type /\ events[i].sessionId = sid}

\* the sessions that were announced by a shell_start event
Announced ==
    {events[i].sessionId : i \in {j \in 1..Len(events) : events[j].type = "shell_start"}}

\* the prompt that ran the shell commands is over and the loop has nothing left to run
Quiet == ready = <<>> /\ \A t \in Tasks : ~InFlight(t) /\ tasks[t].pc # "created"

\* C16: the events of a session come in the order shell_start, shell_data, shell_end,
\* and once the prompt is over every shell_start has exactly one shell_end
C16_ShellEventOrder ==
    \A sid \in Announced :
        /\ Cardinality(ShellEvents("shell_start", sid)) = 1
        /\ Cardinality(ShellEvents("shell_end", sid)) <= 1
        /\ \A i \in ShellEvents("shell_start", sid), j \in ShellEvents("shell_data", sid) : i < j
        /\ \A j \in ShellEvents("shell_data", sid), k \in ShellEvents("shell_end", sid) : j < k
        /\ \A i \in ShellEvents("shell_start", sid), k \in ShellEvents("shell_end", sid) : i < k
        /\ Quiet => Cardinality(ShellEvents("shell_end", sid)) = 1

\* the tool calls task t dispatched, and the identifiers of its rounds
CallsOf(t) == {tc \in DOMAIN calls : calls[tc].task = t}
RoundIds(t) ==
    {tasks[t].prompt_id, tasks[t].round_id} \cup {calls[tc].promptId : tc \in CallsOf(t)}

\* the final events of the rounds of task t
Finals(t) == {i \in 1..Len(events) : events[i].type = "final" /\ events[i].id \in RoundIds(t)}

\* task t issued one tool call in each of its rounds but the last, which answered in text
OneCallEachRound(t) ==
    /\ tasks[t].round >= 1
    /\ Cardinality(CallsOf(t)) = tasks[t].round
    /\ LastRoundText(t) # <<>>

\* the final events of task t that carry the identifier of a continuation round
RoundFinals(t) == {i \in Finals(t) : events[i].id # tasks[t].prompt_id}

EmittedBefore(a, b) ==
    /\ calls[a].task = calls[b].task
    /\ \/ calls[a].tool_use_id[1] < calls[b].tool_use_id[1]
       \/ /\ calls[a].tool_use_id[1] = calls[b].tool_use_id[1]
          /\ calls[a].tool_use_id[2] < calls[b].tool_use_id[2]

\* the calls task t dispatched in round n, and the one the provider emitted k-th
RoundCallsOf(t, n) == {tc \in CallsOf(t) : calls[tc].tool_use_id[1] = n}
CallAt(t, n, k) == CHOOSE tc \in CallsOf(t) : calls[tc].tool_use_id = <<n, k>>

\* the results are those of the calls of round n of task t, one per call identifier,
\* in the order the provider emitted the calls
ResultsInOrder(results, t, n) ==
    \A i \in 1..Len(results) :
        /\ results[i].tool_use_id = <<n, i>>
        /\ \E tc \in CallsOf(t) : calls[tc].tool_use_id = <<n, i>>
        /\ results[i].content = calls[CallAt(t, n, i)].result

\* C18: the tool calls of a prompt run one at a time in the order the provider
\* emitted them: a call starts only after the call before it has ended; and the tool
\* results collected in a round, and those handed to the next round, are in that
\* order, one result for each call identifier of the round
C18_CallsInOrder ==
    /\ \A a \in DOMAIN calls, b \in DOMAIN calls :
            EmittedBefore(a, b) =>
                /\ Ends(a) # {}
                /\ \A i \in Ends(a), j \in Starts(b) : i < j
    /\ \A t \in Tasks :
            /\ ResultsInOrder(tasks[t].tool_results, t, tasks[t].round)
            /\ tasks[t].round >= 1 =>
                    LET handed == Last(tasks[t].messages).tool_results
                    IN /\ Len(handed) = Cardinality(RoundCallsOf(t, tasks[t].round - 1))
                       /\ ResultsInOrder(handed, t, tasks[t].round - 1)

\* a round carried two calls that each waited for an approval and returned different
\* results, both handed to the next round
C18_Witness ==
    \E t \in Tasks :
        /\ tasks[t].round >= 1
        /\ \A tc \in RoundCallsOf(t, tasks[t].round - 1) : calls[tc].gated
        /\ Len(Last(tasks[t].messages).tool_results) = 2
        /\ Last(tasks[t].messages).tool_results[1].content
              # Last(tasks[t].messages).tool_results[2].content

\* C19: the text handle_tool_call returns to the model is not empty, whatever the
\* tool and the outcome
C19_ResultNotEmpty ==
    \A tc \in DOMAIN calls : calls[tc].state = "returned" => calls[tc].result # <<>>

\* the turns of the history that task t appended as the assistant
AssistantTurns(t) ==
    {i \in 1..Len(history) : history[i].owner = t /\ history[i].role = "assistant"}

\* C20: a prompt that went through continuation rounds appends at most one assistant
\* turn, and its content is the stripped text of the last round alone: the text of
\* the first round and of the rounds between, which the token and final events
\* carried, is in no turn
C20_LastRoundTextOnly ==
    \A t \in Tasks :
        tasks[t].round >= 1 =>
            /\ Cardinality(AssistantTurns(t)) <= 1
            /\ \A i \in AssistantTurns(t) : history[i].content = LastRoundText(t)
            /\ Completed(t) =>
                    Cardinality(AssistantTurns(t)) = (IF LastRoundText(t) # <<>> THEN 1 ELSE 0)

\* a prompt streamed text in its first round and in a round between, both of which
\* a token event carried, answered in a third round and appended that answer
C20_Witness ==
    \E t \in Tasks :
        /\ Completed(t) /\ tasks[t].round = 2
        /\ Strip(Concat(tasks[t].aggregated_text)) # <<>>
        /\ \E i \in 1..Len(events) :
                /\ events[i].type = "token"
                /\ events[i].id = tasks[t].prompt_id
        /\ Cardinality({i \in 1..Len(events) : events[i].type = "token"}) = 3
        /\ \E i \in AssistantTurns(t) : history[i].content = LastRoundText(t)

\* the stdin line just handled was a kill command
KillStep == lines' = lines + 1 /\ line'.type = "kill"

\* C21: a kill command that names a tracked session sends that session's process the
\* termination signal and writes one tool_log event, leaving every other process,
\* the table of live sessions and the ingest loop as they were; a kill command with
\* an unknown or a missing sessionId writes one error event and changes no process
\* and no table
C21_KillTargetsOneSession ==
    [][ KillStep =>
            LET sid == line'.payload.sessionId
            IN /\ ingest' = "running"
               /\ Len(events') = Len(events) + 1
               /\ UNCHANGED <<shell_processes, pending_approvals>>
               /\ IF sid \in shell_processes
                  THEN /\ Last(events').type = "tool_log"
                       /\ procs'[sid].termed
                       /\ \A other \in DOMAIN procs \ {sid} : procs'[other] = procs[other]
                  ELSE /\ Last(events').type = "error"
                       /\ procs' = procs
      ]_vars

\* path q lies below path p
Below(q, p) == Len(q) > Len(p) /\ SubSeq(q, 1, Len(p)) = p

\* the filesystem and process operations the step performed
Performed == SubSeq(io', Len(io) + 1, Len(io'))

\* C22: delete_path with recursive = true on a directory removes the directory and
\* everything below it and nothing else, each entry once, every nested entry before
\* the directory that contains it and the directory itself last; delete_path with
\* recursive = false on a directory that is not empty fails, performs no operation
\* and leaves the filesystem as it was
C22_RecursiveDeleteOrder ==
    [][ \A tc \in DOMAIN calls' \ DOMAIN calls :
            (calls'[tc].name = "delete_path" /\ IsDir(fs, Target(calls'[tc]))) =>
                LET target == Target(calls'[tc])
                    gone == {target} \cup Descendants(fs, target)
                IN IF Get(calls'[tc].arguments, "recursive", FALSE)
                   THEN /\ calls'[tc].state = "returned"
                        /\ DOMAIN fs' = DOMAIN fs \ gone
                        /\ \A p \in DOMAIN fs' : fs'[p] = fs[p]
                        /\ Len(Performed) = Cardinality(gone)
                        /\ {Performed[i].path : i \in 1..Len(Performed)} = gone
                        /\ \A i \in 1..Len(Performed), j \in 1..Len(Performed) :
                                Below(Performed[j].path, Performed[i].path) => j < i
                        /\ Last(Performed).path = target
                   ELSE Children(fs, target) # {} =>
                            /\ calls'[tc].state = "raised"
                            /\ fs' = fs
                            /\ Performed = <<>>
      ]_vars

\* a recursive delete removed a directory with a directory nested two levels below
\* it, and a delete without recursion was refused on a directory with entries
C22_Witness ==
    /\ \E tc \in DOMAIN calls :
            /\ calls[tc].name = "delete_path" /\ calls[tc].state = "returned"
            /\ Get(calls[tc].arguments, "recursive", FALSE)
            /\ Cardinality(Effects(tc)) >= 3
            /\ \E i \in Effects(tc) : Len(io[i].path) = Len(Target(calls[tc])) + 2
    /\ \E tc \in DOMAIN calls :
            /\ calls[tc].name = "delete_path" /\ calls[tc].state = "raised"
            /\ Effects(tc) = {}

\* the task is inside a run_shell call whose child was spawned
InShellCall(t) == tasks[t].pc \in {"sh_drain", "sh_exit", "sh_final"}

\* C23: a run_shell call whose child was spawned always finishes, whatever the child
\* does: also when the child has closed both pipes and keeps running, and when it
\* does not exit after the termination signal that follows the timeout
C23_ShellCallFinishes == \A t \in Tasks : InShellCall(t) ~> ~InShellCall(t)

\* the prompt of task t completed and its final event was written, or it failed and
\* the error event that reports the failure was written
Settled(t) ==
    \/ /\ Completed(t)
       /\ \E i \in 1..Len(events) :
              events[i].type = "final" /\ events[i].id = tasks[t].prompt_id
    \/ Failed(t) /\ Reported(t)

\* C24: under fairness, with tool rounds bounded and every approval request
\* answered, a prompt that was started on either provider eventually completes with
\* a final event tagged with its identifier or fails with an error event
C24_PromptSettles == \A t \in Tasks : (tasks[t].pc = "created") ~> Settled(t)

\* the positions in the history of the turns that task t appended
TurnsOf(t) == {i \in 1..Len(history) : history[i].owner = t}

\* C25: with prompts in flight side by side, the turns one prompt appended to the
\* history are contiguous: no turn of another prompt lies between two of them
C25_TurnsContiguous ==
    \A t \in Tasks : \A i \in TurnsOf(t), j \in TurnsOf(t) :
        \A k \in i..j : history[k].owner = t

\* the positions in the event log of the events of one type tagged with identifier id
EventsTagged(type, id) == {i \in 1..Len(events) : events[i].type = type /\ events[i].id = id}

\* the text of the token events tagged with id among the first n events, in order
RECURSIVE TokenText(_, _)
TokenText(id, n) ==
    IF n = 0 THEN <<>>
    ELSE TokenText(id, n - 1) \o
         (IF events[n].type = "token" /\ events[n].id = id THEN events[n].text ELSE <<>>)

\* the prompts that were started
Started == {t \in Tasks : tasks[t].pc \notin {"none", "created"}}

\* what holds of the rounds of every prompt at every moment: the identifiers of its
\* rounds are distinct and shared with no other prompt, the first round's is the
\* prompt's own; a round has at most one final event, which comes after the round's
\* token events and carries their text, stripped; the tool_call_start events of the
\* calls of one round carry that round's identifier
RoundsTagged(t) ==
    /\ Cardinality(RoundIds(t)) = tasks[t].round + 1
    /\ \A u \in Started \ {t} : RoundIds(t) \cap RoundIds(u) = {}
    /\ \A id \in RoundIds(t) :
            /\ Cardinality(EventsTagged("final", id)) <= 1
            /\ \A i \in EventsTagged("final", id) :
                    /\ \A j \in EventsTagged("token", id) : j < i
                    /\ events[i].text = Strip(TokenText(id, Len(events)))
    /\ \A tc \in CallsOf(t) :
            /\ calls[tc].promptId =
                    (IF calls[tc].tool_use_id[1] = 0 THEN tasks[t].prompt_id
                     ELSE tasks[t].round_id)
            /\ \A i \in Starts(tc) : events[i].promptId = calls[tc].promptId

\* C26 (as the code has it): every round of a prompt that completes has exactly one
\* final event, tagged with the round's identifier, emitted after every token event
\* that carries the identifier and carrying their text; the identifier of a
\* continuation round is fresh, differing from the prompt's identifier and from that of
\* every other round of any prompt, and the round's token, final and tool_call_start
\* events carry it. A round of a prompt that fails has at most one final event.
C26_CompletedRoundsHaveOneFinal ==
    \A t \in Started :
        /\ RoundsTagged(t)
        /\ (Quiet /\ tasks[t].pc = "completed") =>
                \A id \in RoundIds(t) : Cardinality(EventsTagged("final", id)) = 1

\* a prompt with a continuation round completed beside another prompt: both rounds
\* streamed text and have their final events
C26_Witness ==
    \E t \in Started :
        /\ Quiet /\ tasks[t].pc = "completed" /\ tasks[t].round = 1
        /\ Cardinality(Started) = 2
        /\ \A id \in RoundIds(t) : EventsTagged("token", id) # {} /\ EventsTagged("final", id) # {}

\* C26 as stated: every round of a prompt that is over, completed or failed, has
\* exactly one final event
C26_EveryRoundHasOneFinal ==
    \A t \in Started :
        (Quiet /\ tasks[t].pc \in {"completed", "errored"}) =>
            \A id \in RoundIds(t) : Cardinality(EventsTagged("final", id)) = 1

\* the tool calls that resume in this step from an approval that was granted
Resumed == {tc \in DOMAIN calls : calls[tc].state = "awaiting" /\ calls'[tc].decision = "approved"}

\* C27: a tool call that resumes from a granted approval is executed with the
\* argument mapping in which every key of the overrides has the override's value and
\* every other key its original value, and with the original arguments when the
\* overrides are empty: the file operations of the step act on the path this mapping
\* names, and a write stores the content it names
C27_OverridesMerged ==
    [][ \A tc \in Resumed :
            LET original == calls[tc].arguments
                overrides == futures[calls[tc].request].overrides
                merged == calls'[tc].arguments
            IN /\ DOMAIN merged = DOMAIN original \cup DOMAIN overrides
               /\ \A k \in DOMAIN merged :
                    merged[k] = IF k \in DOMAIN overrides THEN overrides[k] ELSE original[k]
               /\ overrides = <<>> => merged = original
               /\ calls'[tc].name \in {"read_file", "write_file"} =>
                    \A i \in 1..Len(Performed) :
                        Performed[i].op \in {"read", "write"} =>
                            /\ Performed[i].path = Target(calls'[tc])
                            /\ Performed[i].op = "write" =>
                                    fs'[Target(calls'[tc])] = FileNode(merged.content.v)
      ]_vars

\* a write was approved with an override of its path only: it wrote the content of
\* the original arguments to the file the override names, and not to the original one
C27_Witness ==
    \E tc \in DOMAIN calls :
        /\ calls[tc].name = "write_file" /\ calls[tc].state \in {"returned", "raised"}
        /\ Granted(tc) /\ futures[calls[tc].request].overrides # <<>>
        /\ \E i \in Starts(tc) :
              /\ events[i].arguments.path # calls[tc].arguments.path
              /\ events[i].arguments.content = calls[tc].arguments.content
        /\ \E i \in Effects(tc) : io[i].op = "write" /\ io[i].path = Target(calls[tc])
        /\ fs[Target(calls[tc])] = FileNode(calls[tc].arguments.content.v)
        /\ fs[<<W, <<"f">>>>] = InitFs[<<W, <<"f">>>>]

\* the position in the history of the first turn with this role that task t appended
FirstTurn(t, role) ==
    CHOOSE i \in TurnsOf(t) :
        /\ history[i].role = role
        /\ \A j \in TurnsOf(t) : history[j].role = role => i <= j

\* C28: in the history the user turn of a prompt comes before the assistant turn of
\* the same prompt, for prompts with no tool round and for prompts with continuation
\* rounds
C28_UserBeforeAssistant ==
    \A t \in Tasks :
        ({"user", "assistant"} \subseteq {history[i].role : i \in TurnsOf(t)}) =>
            FirstTurn(t, "user") < FirstTurn(t, "assistant")

C30_CallsUnderPromptConfig ==
    \A tc \in DOMAIN calls :
        LET started == tasks[calls[tc].task].cfg
        IN /\ calls[tc].gated = approval_required(calls[tc].name, started)
           /\ \A i \in Effects(tc) : IsRelativeTo(io[i].path, started.workdir)

\* the unit of work of task t was created and has not finished
Running(t) == tasks[t].pc = "created" \/ InFlight(t)

\* C31: active_prompt_id is set while the unit of work of at least one prompt is
\* running, and is None only when none is, also when a second prompt was started
\* before the first finished
C31_ActiveWhileRunning ==
    (\E t \in Tasks : Running(t)) => active_prompt_id # NoId

\* the stdin line just handled was a prompt command
PromptStep == lines' = lines + 1 /\ line'.type = "prompt"

\* a configuration command has been applied successfully: its "ready" status was written
Applied ==
    \E i \in 1..Len(events) : events[i].type = "status" /\ events[i].status = "ready"

\* no unit of work exists, nothing is queued on the loop, no tool call was dispatched,
\* no file or process operation performed, and the history is empty
Idle ==
    /\ \A t \in Tasks : tasks[t] = NoTask
    /\ ready = <<>> /\ calls = <<>> /\ io = <<>> /\ procs = <<>>
    /\ history = <<>> /\ active_prompt_id = NoId

\* C32: while no configuration has been applied successfully (none sent, or every
\* one sent failed validation), a prompt command emits one error event and nothing
\* else: no unit of work is started, no stream opened, no tool run, and the history
\* stays empty
C32_PromptNeedsConfig ==
    [][ /\ ~Applied' => Idle'
        /\ (PromptStep /\ ~Applied) =>
                /\ Len(events') = Len(events) + 1
                /\ Last(events') = ErrorEvent("Backend not configured.")
                /\ UNCHANGED <<config, history, openai_client, anthropic_client,
                               pending_approvals, futures, shell_processes, procs,
                               active_prompt_id, tasks, ready, blocking, ingest, uuid, fs,
                               io, calls>>
      ]_vars

\* a prompt was refused after a configuration that failed validation, and another
\* after it
C32_Witness ==
    /\ ~Applied /\ Idle
    /\ line.type = "prompt"
    /\ Last(events) = ErrorEvent("Backend not configured.")
    /\ \E i \in 1..Len(events) : events[i].type = "status" /\ events[i].status = "error"
    /\ Cardinality({i \in 1..Len(events) : events[i] = ErrorEvent("Backend not configured.")}) = 2

====
